---------------------------- MODULE Spec2Model ----------------------------
(***************************************************************************)
(* Growth-analytics pipeline of PropRoo (backend/app/analytics.py):        *)
(* calculate_cagr and calculate_growth_metrics over the sales table and    *)
(* the five derived tables.                                                *)
(*                                                                         *)
(* Numbers.  Python floats are modelled as fixed-point integers with       *)
(* Scale units per 1.0 (a cagr of 0.189207 is the integer 189207).  Prices *)
(* are whole dollars.  A holding period `years` is the exact rational      *)
(* <<num, den>> (den > 0), so that `years < 0.5` is decided exactly.       *)
(* Dates are day numbers counted from 1996-01-01.                          *)
(***************************************************************************)
EXTENDS Integers, Sequences, FiniteSets, TLC

VARIABLES
    sales,            \* table "sales": sequence of rows in id order
    property_growth,  \* committed table "property_growth"
    street_growth,    \* committed table "street_growth"
    suburb_growth,    \* committed table "suburb_growth"
    street_summary,   \* committed table "street_summary"
    suburb_summary,   \* committed table "suburb_summary"
    pc,               \* position of calculate_growth_metrics
    df,               \* run-local: the filtered, sorted sales frame
    property_stats,   \* run-local: the list of property growth records
    before,           \* history: the five tables when the last run started
    outcome,          \* how the last run ended: "none", "returned", "raised"
    rebuilt,          \* history: a run has already ended on this sales table
    derived,          \* history: growth records the last run derived
    cagr_args,        \* arguments of a direct call of calculate_cagr
    cagr_result,      \* its result
    summary_df,       \* a summary frame handed to the top-performer classifier
    run_pc,           \* concurrent runs: the position of each run
    txn,              \* concurrent runs: the store's open write transaction
    stations_csv,     \* the file backend/data/stations.csv
    STATIONS_DF,      \* geocoding.STATIONS_DF: the cached station frame
    nearest,          \* a call of get_nearest_station: its point and result
    bulk,             \* a delete-then-chunked-insert of one table
    ingest,           \* a run of ingest_data
    verify_log        \* what verify_cagr has logged

\* The variables of the components other than calculate_growth_metrics,
\* calculate_cagr and the classifier.
laterVars == <<run_pc, txn, stations_csv, STATIONS_DF, nearest, bulk, ingest, verify_log>>

vars == <<sales, property_growth, street_growth, suburb_growth, street_summary,
          suburb_summary, pc, df, property_stats, before, outcome, rebuilt,
          derived, cagr_args, cagr_result, summary_df, laterVars>>

-----------------------------------------------------------------------------
(* Fixed-point arithmetic standing for Python float arithmetic.            *)

Kilo == 10 * 100
Scale == Kilo * Kilo

Abs(x) == IF x < 0 THEN -x ELSE x
Max2(a, b) == IF a >= b THEN a ELSE b

\* floor(a * b / Scale) for a, b >= 0, without leaving 32 bits.
FixMul(a, b) ==
    LET ah == a \div Kilo
        al == a % Kilo
        bh == b \div Kilo
        bl == b % Kilo
    IN  ah * bh + ((ah * bl + al * bh) + ((al * bl) \div Kilo)) \div Kilo

\* floor(num * Scale / den) for den > 0: the float quotient num / den.
FixDiv(num, den) ==
    LET t == num * Kilo
        q == t \div den
        r == t % den
    IN  q * Kilo + ((r * Kilo) \div den)

\* base ** k for a whole k >= 0.
RECURSIVE IntPow(_, _)
IntPow(base, k) == IF k = 0 THEN Scale ELSE FixMul(IntPow(base, k - 1), base)

\* The largest r with r * r <= v, by bisection on [lo, hi).
RECURSIVE SqrtSearch(_, _, _)
SqrtSearch(v, lo, hi) ==
    IF hi - lo <= 1 THEN lo
    ELSE LET mid == (lo + hi) \div 2
         IN  IF FixMul(mid, mid) <= v THEN SqrtSearch(v, mid, hi)
                                      ELSE SqrtSearch(v, lo, mid)

FixSqrt(v) == SqrtSearch(v, 0, Max2(v, Scale) + 1)

\* Binary digits of the exponent the power is evaluated to.
PowBits == 10 + 10

\* base ** (p / q) for 0 <= p < q: the product of the repeated square roots
\* base ** (1/2), base ** (1/4), ... selected by the binary digits of p / q.
RECURSIVE FracPow(_, _, _, _)
FracPow(root, p, q, n) ==
    IF n = 0 \/ p = 0 THEN Scale
    ELSE LET r == FixSqrt(root)
             d == 2 * p
         IN  IF d >= q THEN FixMul(r, FracPow(r, d - q, q, n - 1))
                       ELSE FracPow(r, d, q, n - 1)

\* base ** (e[1] / e[2]) for a real base >= 0 and an exponent > 0.
\* 0.0 ** e is 0.0.
Pow(base, e) ==
    IF base = 0 THEN 0
    ELSE FixMul(IntPow(base, e[1] \div e[2]),
                FracPow(base, e[1] % e[2], e[2], PowBits))

\* years < 0.5 for the rational years = <<num, den>>.
HALF_YEAR_NUM == 1
HALF_YEAR_DEN == 2
LessThanHalfYear(years) == years[1] * HALF_YEAR_DEN < HALF_YEAR_NUM * years[2]

\* Python's float ** raises OverflowError when the result exceeds the largest
\* double (about 1.8e308).  With base <= 46 and exponent <= 2 it never does.
PowOverflows(base, e) == FALSE

\* (last_price - first_price) / first_price; first_price # 0.
TotalGrowth(first_price, last_price) ==
    IF first_price > 0 THEN FixDiv(last_price - first_price, first_price)
                       ELSE FixDiv(first_price - last_price, -first_price)

\* last_price / first_price; first_price # 0.
PriceRatio(first_price, last_price) ==
    IF first_price > 0 THEN FixDiv(last_price, first_price)
                       ELSE FixDiv(-last_price, -first_price)

\* What a call returns or that it raised.  real = FALSE: cagr is a Python
\* complex number (negative base, fractional exponent); its value is not kept.
Returned(cagr, total_growth) ==
    [raised |-> FALSE, real |-> TRUE, cagr |-> cagr, total_growth |-> total_growth]
ReturnedComplex(total_growth) ==
    [raised |-> FALSE, real |-> FALSE, cagr |-> 0, total_growth |-> total_growth]
Raised == [raised |-> TRUE, real |-> TRUE, cagr |-> 0, total_growth |-> 0]

\* Mutant: the short-holding guard is dropped.
calculate_cagr_NoGuard(first_price, last_price, years) ==
    IF first_price = 0 \/ years[1] <= 0 THEN Raised
    ELSE Returned(Pow(Abs(PriceRatio(first_price, last_price)), <<years[2], years[1]>>) - Scale,
                  TotalGrowth(first_price, last_price))

\* Mutant: the exponent is years instead of 1 / years.
calculate_cagr_WrongExponent(first_price, last_price, years) ==
    IF first_price = 0 THEN Raised
    ELSE IF LessThanHalfYear(years) THEN Returned(0, TotalGrowth(first_price, last_price))
    ELSE Returned(Pow(Abs(PriceRatio(first_price, last_price)), years) - Scale,
                  TotalGrowth(first_price, last_price))

calculate_cagr(first_price, last_price, years) ==
    IF LessThanHalfYear(years)
    THEN \* line 25: the division raises ZeroDivisionError when first_price = 0
         IF first_price = 0 THEN Raised
         ELSE Returned(0, TotalGrowth(first_price, last_price))
    ELSE IF first_price = 0
    THEN \* line 28 raises ZeroDivisionError, caught (cagr = 0.0); line 33 then
         \* divides by first_price again, outside the try, and raises.
         Raised
    ELSE LET ratio == PriceRatio(first_price, last_price)
             e == <<years[2], years[1]>>       \* 1 / years
             total_growth == TotalGrowth(first_price, last_price)
         IN  IF ratio < 0
             THEN IF e[1] % e[2] = 0
                  THEN \* whole exponent: a real power of a negative base
                       Returned((IF (e[1] \div e[2]) % 2 = 0 THEN 1 ELSE -1)
                                    * IntPow(-ratio, e[1] \div e[2]) - Scale,
                                total_growth)
                  ELSE ReturnedComplex(total_growth)
             ELSE IF PowOverflows(ratio, e)
             THEN Returned(0, total_growth)    \* except OverflowError: cagr = 0.0
             ELSE Returned(Pow(ratio, e) - Scale, total_growth)

-----------------------------------------------------------------------------
(* The data.  A nullable column holds <<>> (NULL) or <<v>>.  Strings        *)
(* (property ids, street names, suburbs) are small numbers, ordered as the *)
(* strings they stand for.                                                 *)

NULL == <<>>
IsNull(x) == x = <<>>

\* Day numbers (days since 1996-01-01).
D2001Jan == 366 + 365 + 365 + 365 + 366    \* 2001-01-01
D2001Apr == D2001Jan + 100                  \* 2001-04-11
D2005Jan == D2001Jan + 1461                 \* 2005-01-01
D1997Jan == D2001Jan - 1461                 \* 1997-01-01, before the first year
D2026Jan == D2001Jan + 25 * 365 + 6         \* 2026-01-01, the year after the last
DateValues == {D1997Jan, D2001Jan, D2001Apr, D2005Jan, D2026Jan}

\* contract_date.dt.year: the calendar year of a day number (1996..2099).
YearOf(d) ==
    LET r == d % 1461
    IN  1996 + 4 * (d \div 1461) + (IF r < 366 THEN 0 ELSE 1 + ((r - 366) \div 365))

Address(street, suburb, post_code) ==
    [property_street_name |-> street, property_locality |-> suburb,
     property_post_code |-> post_code]

A1 == Address(1, 1, <<2000>>)
A2 == Address(2, 1, <<2000>>)    \* another street of suburb 1
A3 == Address(2, 2, NULL)        \* another suburb, no post code recorded

Sale(pid, date, price, addr) ==
    [property_id |-> pid, contract_date |-> date, purchase_price |-> price,
     property_street_name |-> addr.property_street_name,
     property_locality |-> addr.property_locality,
     property_post_code |-> addr.property_post_code]

\* The sale rows the model draws from.  Property 1 sells twice within 2001
\* for 100 at any of three addresses; property 2 sells at one address in 2001
\* and 2005 for 0, 100 or 200, in 1997 for 100 and in 2026 for 200; one row
\* has no date and one has no price.
Prices == {0, 100, 200}
Rows ==
    {Sale(1, <<d>>, <<100>>, a) : d \in {D2001Jan, D2001Apr}, a \in {A1, A2, A3}}
    \cup {Sale(2, <<d>>, <<p>>, A1) : d \in {D2001Jan, D2005Jan}, p \in Prices}
    \cup {Sale(2, <<D1997Jan>>, <<100>>, A1), Sale(2, <<D2026Jan>>, <<200>>, A1)}
    \cup {Sale(1, NULL, <<100>>, A1), Sale(2, <<D2001Jan>>, NULL, A1)}

\* The most rows the sales table holds.
MaxSales == 4

\* Rows of the table are enumerated up to the reorderings that the stable
\* sort of line 64 erases: by falling (date, property), NULL dates first, and
\* rows of one property and date in every order.
RowRank(r) ==
    (IF IsNull(r.contract_date) THEN 100000 ELSE r.contract_date[1]) * 10 + r.property_id

Datasets ==
    UNION {{s \in [1..n -> Rows] : \A i \in 1..(n - 1) : RowRank(s[i]) >= RowRank(s[i + 1])}
           : n \in 0..MaxSales}

-----------------------------------------------------------------------------
(* calculate_growth_metrics, lines 53-94: the frame and the growth records. *)

\* Lines 53-55: rows with an unparseable price or date are dropped.
DropNa(rows) ==
    SelectSeq(rows, LAMBDA r : ~IsNull(r.contract_date) /\ ~IsNull(r.purchase_price))

\* Line 64: the order of sort_values(by = [property_id, contract_date]).
SortsBefore(a, b) ==
    \/ a.property_id < b.property_id
    \/ a.property_id = b.property_id /\ a.contract_date[1] < b.contract_date[1]

\* Mutant: x goes before the rows of its own property and date.
RECURSIVE InsertSorted_BeforeEqual(_, _)
InsertSorted_BeforeEqual(sorted, x) ==
    IF sorted = <<>> THEN <<x>>
    ELSE IF ~SortsBefore(sorted[Len(sorted)], x)
         THEN Append(InsertSorted_BeforeEqual(SubSeq(sorted, 1, Len(sorted) - 1), x),
                     sorted[Len(sorted)])
         ELSE Append(sorted, x)

\* Stable insertion: x goes behind every row that does not sort after it.
RECURSIVE InsertSorted(_, _)
InsertSorted(sorted, x) ==
    IF sorted = <<>> THEN <<x>>
    ELSE IF SortsBefore(x, sorted[Len(sorted)])
         THEN Append(InsertSorted(SubSeq(sorted, 1, Len(sorted) - 1), x),
                     sorted[Len(sorted)])
         ELSE Append(sorted, x)

RECURSIVE SortValues(_)
SortValues(rows) ==
    IF rows = <<>> THEN <<>>
    ELSE InsertSorted(SortValues(SubSeq(rows, 1, Len(rows) - 1)), rows[Len(rows)])

\* Lines 53-64: the frame every later step reads.
Frame(rows) == SortValues(DropNa(rows))

\* A set of numbers as the rising sequence of its elements.
RECURSIVE Ascending(_)
Ascending(S) ==
    IF S = {} THEN <<>>
    ELSE LET m == CHOOSE x \in S : \A y \in S : x <= y
         IN  <<m>> \o Ascending(S \ {m})

\* groupby('property_id'): the rows of one property, in frame order.
Group(frame, pid) == SelectSeq(frame, LAMBDA r : r.property_id = pid)

\* Line 79: (last_date - first_date).days / 365.25, as a rational.
YearsBetween(first_date, last_date) == <<4 * (last_date - first_date), 1461>>

\* float(years) in fixed point.
YearsHeld(years) == FixDiv(years[1], years[2])

\* calculate_cagr for every argument the frames of the model can pass.
DayDifferences == {b - a : a \in DateValues, b \in DateValues} \cap Nat
CagrInputs == {<<f, l, d>> : f \in Prices, l \in Prices, d \in DayDifferences}
CagrOf == [a \in CagrInputs |-> calculate_cagr(a[1], a[2], YearsBetween(0, a[3]))]

\* Lines 70-94: the growth record of one group of at least 2 rows.
GrowthRecord(group) ==
    LET first_sale == group[1]
        last_sale == group[Len(group)]
        first_price == first_sale.purchase_price[1]
        last_price == last_sale.purchase_price[1]
        days == last_sale.contract_date[1] - first_sale.contract_date[1]
        g == CagrOf[<<first_price, last_price, days>>]
    IN  [property_id |-> first_sale.property_id,
         raised |-> g.raised,
         real |-> g.real,
         cagr |-> g.cagr,
         total_growth |-> g.total_growth,
         years_held |-> YearsHeld(YearsBetween(first_sale.contract_date[1],
                                               last_sale.contract_date[1])),
         last_sale_price |-> last_price,
         first_sale_price |-> first_price,
         last_sale_year |-> YearOf(last_sale.contract_date[1]),
         property_street_name |-> first_sale.property_street_name,
         property_locality |-> first_sale.property_locality,
         property_post_code |-> IF IsNull(first_sale.property_post_code) THEN 0
                                ELSE first_sale.property_post_code[1]]

\* Lines 66-94: one record per property with at least 2 rows, in key order.
RECURSIVE StatsOf(_, _)
StatsOf(frame, pids) ==
    IF pids = <<>> THEN <<>>
    ELSE LET group == Group(frame, Head(pids))
         IN  (IF Len(group) < 2 THEN <<>> ELSE <<GrowthRecord(group)>>)
             \o StatsOf(frame, Tail(pids))

PropertyStats(frame) ==
    StatsOf(frame, Ascending({frame[i].property_id : i \in 1..Len(frame)}))

-----------------------------------------------------------------------------
(* calculate_growth_metrics, lines 96-244: the rows written to the tables.  *)

\* Lines 100-103: only the columns of the property_growth table are kept.
PropertyGrowthRow(p) ==
    [property_id |-> p.property_id, cagr |-> p.cagr, total_growth |-> p.total_growth,
     years_held |-> p.years_held, last_sale_price |-> p.last_sale_price,
     first_sale_price |-> p.first_sale_price]

PropertyGrowthRecords(stats) == [i \in 1..Len(stats) |-> PropertyGrowthRow(stats[i])]

\* Line 115: range(2001, 2026).
FIRST_YEAR == 2001
END_YEAR == 2026
years_range == FIRST_YEAR..(END_YEAR - 1)

\* The order of group keys (tuples of numbers of one length).
RECURSIVE KeyLess(_, _)
KeyLess(a, b) ==
    /\ a # <<>>
    /\ \/ Head(a) < Head(b)
       \/ Head(a) = Head(b) /\ KeyLess(Tail(a), Tail(b))

\* groupby sorts its groups by key.
RECURSIVE SortedKeys(_)
SortedKeys(K) ==
    IF K = {} THEN <<>>
    ELSE LET m == CHOOSE k \in K : \A o \in K : ~KeyLess(o, k)
         IN  <<m>> \o SortedKeys(K \ {m})

RECURSIVE Sum(_)
Sum(xs) == IF xs = <<>> THEN 0 ELSE Head(xs) + Sum(Tail(xs))

\* Mutant: the sum of the group instead of its mean.
MeanCagr_Sum(group) == Sum([i \in 1..Len(group) |-> group[i].cagr])

\* agg 'mean' of the cagr column of a non-empty group.
MeanCagr(group) == Sum([i \in 1..Len(group) |-> group[i].cagr]) \div Len(group)

StreetKey(r) == <<r.property_street_name, r.property_locality, r.property_post_code>>
SuburbKey(r) == <<r.property_locality>>

\* Mutant: only the properties last sold in the year are kept.
YearActive_SoldInYear(growth, year) == SelectSeq(growth, LAMBDA g : g.last_sale_year = year)

\* Mutant: only the properties last sold after the year are kept.
YearActive_Strict(growth, year) == SelectSeq(growth, LAMBDA g : g.last_sale_year > year)

\* Line 125: growth_df[growth_df['last_sale_year'] >= year].
YearActive(growth, year) == SelectSeq(growth, LAMBDA g : g.last_sale_year >= year)

\* Lines 131-144: the street rows of one year.
StreetRowsOfYear(active, year) ==
    LET keys == SortedKeys({StreetKey(active[i]) : i \in 1..Len(active)})
    IN  [k \in 1..Len(keys) |->
            LET group == SelectSeq(active, LAMBDA g : StreetKey(g) = keys[k])
            IN  [street_name |-> keys[k][1], suburb |-> keys[k][2],
                 post_code |-> keys[k][3], year |-> year,
                 avg_cagr |-> MeanCagr(group), property_count |-> Len(group)]]

\* Lines 147-158: the suburb rows of one year.
SuburbRowsOfYear(active, year) ==
    LET keys == SortedKeys({SuburbKey(active[i]) : i \in 1..Len(active)})
    IN  [k \in 1..Len(keys) |->
            LET group == SelectSeq(active, LAMBDA g : SuburbKey(g) = keys[k])
            IN  [suburb |-> keys[k][1], year |-> year,
                 avg_cagr |-> MeanCagr(group), property_count |-> Len(group)]]

\* Lines 122-158: the loop over the years from `year` on; a year without an
\* active property is skipped.
RECURSIVE StreetRecordsFrom(_, _)
StreetRecordsFrom(growth, year) ==
    IF year >= END_YEAR THEN <<>>
    ELSE StreetRowsOfYear(YearActive(growth, year), year)
         \o StreetRecordsFrom(growth, year + 1)

RECURSIVE SuburbRecordsFrom(_, _)
SuburbRecordsFrom(growth, year) ==
    IF year >= END_YEAR THEN <<>>
    ELSE SuburbRowsOfYear(YearActive(growth, year), year)
         \o SuburbRecordsFrom(growth, year + 1)

street_records(growth) == StreetRecordsFrom(growth, FIRST_YEAR)
suburb_records(growth) == SuburbRecordsFrom(growth, FIRST_YEAR)

\* Lines 163-164 and 208-209: the rows are inserted chunk by chunk.
CHUNK_SIZE == 10000
RECURSIVE InsertChunks(_, _)
InsertChunks(records, i) ==
    IF i >= Len(records) THEN <<>>
    ELSE SubSeq(records, i + 1, IF i + CHUNK_SIZE < Len(records) THEN i + CHUNK_SIZE
                                                                  ELSE Len(records))
         \o InsertChunks(records, i + CHUNK_SIZE)

\* Stable insertion sort of a sequence of numbers.
RECURSIVE SortNumbers(_)
SortNumbers(xs) ==
    IF xs = <<>> THEN <<>>
    ELSE LET rest == SortNumbers(Tail(xs))
             low == SelectSeq(rest, LAMBDA y : y < Head(xs))
             high == SelectSeq(rest, LAMBDA y : y >= Head(xs))
         IN  low \o <<Head(xs)>> \o high

\* Series.quantile(0.9) of the non-null values: linear interpolation between
\* the ranks around 0.9 * (n - 1).
QUANTILE_NUM == 9
QUANTILE_DEN == 10
Quantile(values) ==
    LET v == SortNumbers(values)
        pos == QUANTILE_NUM * (Len(v) - 1)
        i == (pos \div QUANTILE_DEN) + 1
        frac == pos % QUANTILE_DEN
    IN  IF frac = 0 THEN v[i]
        ELSE v[i] + ((frac * (v[i + 1] - v[i])) \div QUANTILE_DEN)

\* Mutant: an unknown average counts as 0.0 in the percentile.
Threshold_NullAsZero(summary) ==
    IF summary = <<>> THEN 0
    ELSE Quantile([i \in 1..Len(summary) |->
                      IF IsNull(summary[i].avg_cagr) THEN 0 ELSE summary[i].avg_cagr[1]])

\* Lines 191 and 223: the top-performer threshold; 0 when no average is known.
Threshold(summary) ==
    LET known == SelectSeq(summary, LAMBDA r : ~IsNull(r.avg_cagr))
    IN  IF known = <<>> THEN 0
        ELSE Quantile([i \in 1..Len(known) |-> known[i].avg_cagr[1]])

\* Lines 192 and 224: (avg_cagr >= threshold).astype(int); NaN compares false.
IsTopPerformer(avg_cagr, threshold) ==
    IF ~IsNull(avg_cagr) /\ avg_cagr[1] >= threshold THEN 1 ELSE 0

\* Mutant: the comparison is strict.
TopPerformerFlags_Strict(summary) ==
    LET threshold == Threshold(summary)
    IN  [k \in 1..Len(summary) |->
            IF ~IsNull(summary[k].avg_cagr) /\ summary[k].avg_cagr[1] > threshold
            THEN 1 ELSE 0]

\* Mutant: the comparison is the wrong way round.
TopPerformerFlags_Below(summary) ==
    LET threshold == Threshold(summary)
    IN  [k \in 1..Len(summary) |->
            IF ~IsNull(summary[k].avg_cagr) /\ summary[k].avg_cagr[1] <= threshold
            THEN 1 ELSE 0]

\* Lines 191-192 and 223-224: the is_top_performer column of a summary frame.
TopPerformerFlags(summary) ==
    LET threshold == Threshold(summary)
    IN  [k \in 1..Len(summary) |-> IsTopPerformer(summary[k].avg_cagr, threshold)]

\* Lines 178-188: groupby drops the rows whose key holds a NULL; the growth
\* averages are left-joined on the key.
StreetSummaryStats(frame, growth) ==
    LET keyed == SelectSeq(frame, LAMBDA r : ~IsNull(r.property_post_code))
        KeyOf(r) == <<r.property_street_name, r.property_locality, r.property_post_code[1]>>
        keys == SortedKeys({KeyOf(keyed[i]) : i \in 1..Len(keyed)})
    IN  [k \in 1..Len(keys) |->
            LET rows == SelectSeq(keyed, LAMBDA r : KeyOf(r) = keys[k])
                group == SelectSeq(growth, LAMBDA g : StreetKey(g) = keys[k])
            IN  [street_name |-> keys[k][1], suburb |-> keys[k][2],
                 post_code |-> keys[k][3],
                 unique_properties |-> Cardinality({rows[i].property_id : i \in 1..Len(rows)}),
                 total_sales |-> Len(rows),
                 avg_cagr |-> IF group = <<>> THEN NULL ELSE <<MeanCagr(group)>>]]

\* Lines 190-204.
street_summary_records(frame, growth) ==
    LET stats == StreetSummaryStats(frame, growth)
        is_top_performer == TopPerformerFlags(stats)
    IN  [k \in 1..Len(stats) |->
            [street_name |-> stats[k].street_name, suburb |-> stats[k].suburb,
             post_code |-> stats[k].post_code,
             unique_properties |-> stats[k].unique_properties,
             total_sales |-> stats[k].total_sales,
             avg_cagr |-> stats[k].avg_cagr,
             is_top_performer |-> is_top_performer[k]]]

\* Lines 212-221.
SuburbSummaryStats(frame, growth) ==
    LET keys == SortedKeys({SuburbKey(frame[i]) : i \in 1..Len(frame)})
    IN  [k \in 1..Len(keys) |->
            LET rows == SelectSeq(frame, LAMBDA r : SuburbKey(r) = keys[k])
                group == SelectSeq(growth, LAMBDA g : SuburbKey(g) = keys[k])
            IN  [suburb |-> keys[k][1],
                 unique_properties |-> Cardinality({rows[i].property_id : i \in 1..Len(rows)}),
                 total_sales |-> Len(rows),
                 avg_cagr |-> IF group = <<>> THEN NULL ELSE <<MeanCagr(group)>>]]

\* Lines 223-234.
suburb_summary_records(frame, growth) ==
    LET stats == SuburbSummaryStats(frame, growth)
        is_top_performer == TopPerformerFlags(stats)
    IN  [k \in 1..Len(stats) |->
            [suburb |-> stats[k].suburb,
             unique_properties |-> stats[k].unique_properties,
             total_sales |-> stats[k].total_sales,
             avg_cagr |-> stats[k].avg_cagr,
             is_top_performer |-> is_top_performer[k]]]

-----------------------------------------------------------------------------
(* The state machine.                                                      *)

Tables ==
    [property_growth |-> property_growth, street_growth |-> street_growth,
     suburb_growth |-> suburb_growth, street_summary |-> street_summary,
     suburb_summary |-> suburb_summary]

EmptyTables ==
    [property_growth |-> <<>>, street_growth |-> <<>>, suburb_growth |-> <<>>,
     street_summary |-> <<>>, suburb_summary |-> <<>>]

\* Mutant: the guard for an empty table is missing.
NoSalesData_Never(rows) == FALSE

\* Line 48: df.empty.
NoSalesData(rows) == rows = <<>>

\* Mutant: the later stages are never skipped.
SkipAggregation_Never(stats) == FALSE

\* Line 110: `if not property_stats: return`.
SkipAggregation(stats) == stats = <<>>

\* Mutant: the delete is forgotten.
DeleteThenInsert_NoDelete(existing, records) == existing \o records

\* db.query(T).delete() followed by the bulk insert of `records` (lines 97-104,
\* 160-170, 206-209, 236-238): ids start again at 1, in insertion order.
DeleteThenInsert(existing, records) == records

\* Mutant: the table is only replaced when there is something to insert.
PersistPropertyGrowth_KeepWhenEmpty(existing, stats) ==
    IF stats = <<>> THEN existing ELSE PropertyGrowthRecords(stats)

\* Mutant: property_growth is not committed before the later stages.
PersistPropertyGrowth_NotCommitted(existing, stats) == existing

\* Lines 97-104: the delete is unconditional, the insert is not.
PersistPropertyGrowth(existing, stats) ==
    IF stats = <<>> THEN DeleteThenInsert(existing, <<>>)
    ELSE DeleteThenInsert(existing, PropertyGrowthRecords(stats))

\* The records the loop of lines 66-94 appends before the first call of
\* calculate_cagr that raises.
RECURSIVE DerivedBeforeRaise(_)
DerivedBeforeRaise(stats) ==
    IF stats = <<>> \/ Head(stats).raised THEN 0
    ELSE 1 + DerivedBeforeRaise(Tail(stats))

\* What a complete rebuild writes for a sales table with growth records.
RebuiltTables(rows) ==
    LET frame == Frame(rows)
        stats == PropertyStats(frame)
    IN  [property_growth |-> PropertyGrowthRecords(stats),
         street_growth |-> InsertChunks(street_records(stats), 0),
         suburb_growth |-> suburb_records(stats),
         street_summary |-> InsertChunks(street_summary_records(frame, stats), 0),
         suburb_summary |-> suburb_summary_records(frame, stats)]

\* An earlier data set: property 3 of street 3, suburb 3, sold in 2001 and 2005.
A0 == Address(3, 3, <<2999>>)
OldSales == <<Sale(3, <<D2001Jan>>, <<100>>, A0), Sale(3, <<D2005Jan>>, <<200>>, A0)>>

\* The derived tables are empty (a fresh database) or hold the rows of a
\* rebuild over the earlier data set.
PriorTables == {EmptyTables, RebuiltTables(OldSales)}

\* The other components are at rest.
InitLater ==
    /\ run_pc = <<>>
    /\ txn = <<>>
    /\ stations_csv = <<>>
    /\ STATIONS_DF = <<>>
    /\ nearest = <<>>
    /\ bulk = <<>>
    /\ ingest = <<>>
    /\ verify_log = <<>>

Init ==
    /\ sales \in Datasets
    /\ \E t \in PriorTables :
          /\ property_growth = t.property_growth
          /\ street_growth = t.street_growth
          /\ suburb_growth = t.suburb_growth
          /\ street_summary = t.street_summary
          /\ suburb_summary = t.suburb_summary
          /\ before = t
    /\ pc = "idle"
    /\ df = <<>>
    /\ property_stats = <<>>
    /\ outcome = "none"
    /\ rebuilt = FALSE
    /\ derived = 0
    /\ cagr_args = <<>>
    /\ cagr_result = <<>>
    /\ summary_df = <<>>
    /\ InitLater

\* The run ends: by `how` = "returned" (a return) or "raised" (an exception).
EndRun(how) ==
    /\ pc' = "idle"
    /\ outcome' = how
    /\ rebuilt' = TRUE
    /\ df' = <<>>
    /\ property_stats' = <<>>

\* calculate_growth_metrics, lines 41-111: from the start of a run to the
\* commit of property_growth (or to the return or the exception before it).
LoadAndDeriveGrowth ==
    /\ pc = "idle"
    /\ before' = Tables
    /\ UNCHANGED <<sales, street_growth, suburb_growth, street_summary, suburb_summary,
                   cagr_args, cagr_result, summary_df, laterVars>>
    /\ IF NoSalesData(sales)
       THEN \* lines 48-50
            /\ EndRun("returned")
            /\ derived' = 0
            /\ UNCHANGED property_growth
       ELSE \E frame \in {Frame(sales)} : \E stats \in {PropertyStats(frame)} :
                IF \E i \in 1..Len(stats) : stats[i].raised \/ ~stats[i].real
                THEN \* calculate_cagr raised (line 81), or line 104 cannot bind a
                     \* complex cagr: the exception leaves through `finally`, and
                     \* closing the session rolls back what was not committed.
                     /\ EndRun("raised")
                     /\ derived' = DerivedBeforeRaise(stats)
                     /\ UNCHANGED property_growth
                ELSE \* lines 97-107
                     /\ property_growth' = PersistPropertyGrowth(property_growth, stats)
                     /\ derived' = Len(stats)
                     /\ IF SkipAggregation(stats)
                        THEN EndRun("returned")                \* lines 110-111
                        ELSE /\ pc' = "aggregate"
                             /\ df' = frame
                             /\ property_stats' = stats
                             /\ UNCHANGED <<outcome, rebuilt>>

\* calculate_growth_metrics, lines 113-244: the per-year aggregates and the
\* summaries, written to their four tables and committed at line 241.
AggregateAndSummarise ==
    /\ pc = "aggregate"
    /\ street_growth' =
          DeleteThenInsert(street_growth, InsertChunks(street_records(property_stats), 0))
    /\ suburb_growth' = DeleteThenInsert(suburb_growth, suburb_records(property_stats))
    /\ street_summary' =
          DeleteThenInsert(street_summary,
                           InsertChunks(street_summary_records(df, property_stats), 0))
    /\ suburb_summary' =
          DeleteThenInsert(suburb_summary, suburb_summary_records(df, property_stats))
    /\ EndRun("returned")
    /\ UNCHANGED <<sales, property_growth, before, derived, cagr_args, cagr_result,
                   summary_df, laterVars>>

Next == LoadAndDeriveGrowth \/ AggregateAndSummarise

Spec == Init /\ [][Next]_vars

-----------------------------------------------------------------------------
(* Runs in which a statement of the session fails (store unavailable,       *)
(* constraint violation): the exception leaves through `finally`.           *)

\* Mutant: closing the session keeps what the transaction had written.
CloseSession_KeepsPending(committed, pending) == pending

\* Line 244 after an exception: db.close() on a session made with
\* autocommit = False rolls the open transaction back.
CloseSession(committed, pending) == committed

\* A bulk insert that fails has written the first half of its rows.
PartlyInserted(records) == SubSeq(records, 1, Len(records) \div 2)

\* The rows of one table inside the open transaction when statement `failing`
\* of the stage fails; `delete` and `insert` number the table's two statements.
PendingRows(existing, records, delete, insert, failing) ==
    IF failing <= delete THEN existing
    ELSE IF failing < insert THEN <<>>
    ELSE IF failing = insert THEN PartlyInserted(records)
    ELSE records

\* Mutant: every table is committed as soon as it has been replaced.
RolledBack_CommittedPerTable(existing, records, delete, insert, failing) ==
    IF failing > insert THEN records ELSE existing

\* The committed rows of one table after statement `failing` of the stage has
\* failed: the stage has one commit, at its end (lines 107 and 241).
RolledBack(existing, records, delete, insert, failing) ==
    CloseSession(existing, PendingRows(existing, records, delete, insert, failing))

\* Lines 97-107: statement 1 deletes, 2 inserts, 3 commits.
PropertyGrowthStatements(stats) == IF stats = <<>> THEN {1, 3} ELSE {1, 2, 3}

\* Lines 160-241: statements 1-2 replace street_growth, 3-4 suburb_growth,
\* 5-6 street_summary, 7-8 suburb_summary, 9 commits.  An insert is only
\* issued for a non-empty list of records.
AggregateStatements(new) ==
    {1, 3, 5, 7, 9}
    \cup (IF new.street_growth # <<>> THEN {2} ELSE {})
    \cup (IF new.suburb_growth # <<>> THEN {4} ELSE {})
    \cup (IF new.street_summary # <<>> THEN {6} ELSE {})
    \cup (IF new.suburb_summary # <<>> THEN {8} ELSE {})

\* calculate_growth_metrics, lines 41-107 and 243-244, when a statement of
\* the property_growth stage fails.
FailPersistingPropertyGrowth ==
    /\ pc = "idle"
    /\ ~NoSalesData(sales)
    /\ \E stats \in {PropertyStats(Frame(sales))} :
           /\ \A i \in 1..Len(stats) : ~stats[i].raised /\ stats[i].real
           /\ \E failing \in PropertyGrowthStatements(stats) :
                 property_growth' =
                     RolledBack(property_growth, PropertyGrowthRecords(stats), 1, 2, failing)
           /\ derived' = Len(stats)
    /\ before' = Tables
    /\ EndRun("raised")
    /\ UNCHANGED <<sales, street_growth, suburb_growth, street_summary, suburb_summary,
                   cagr_args, cagr_result, summary_df, laterVars>>

\* calculate_growth_metrics, lines 113-244, when a statement of the later
\* stages fails.
FailPersistingAggregates ==
    /\ pc = "aggregate"
    /\ \E new \in {[street_growth |-> InsertChunks(street_records(property_stats), 0),
                     suburb_growth |-> suburb_records(property_stats),
                     street_summary |->
                         InsertChunks(street_summary_records(df, property_stats), 0),
                     suburb_summary |-> suburb_summary_records(df, property_stats)]} :
           \E failing \in AggregateStatements(new) :
               /\ street_growth' =
                      RolledBack(street_growth, new.street_growth, 1, 2, failing)
               /\ suburb_growth' =
                      RolledBack(suburb_growth, new.suburb_growth, 3, 4, failing)
               /\ street_summary' =
                      RolledBack(street_summary, new.street_summary, 5, 6, failing)
               /\ suburb_summary' =
                      RolledBack(suburb_summary, new.suburb_summary, 7, 8, failing)
    /\ EndRun("raised")
    /\ UNCHANGED <<sales, property_growth, before, derived, cagr_args, cagr_result,
                   summary_df, laterVars>>

\* One run over each sales table and prior content of the derived tables,
\* with or without a failing statement.
NextFail ==
    \/ ~rebuilt /\ LoadAndDeriveGrowth
    \/ ~rebuilt /\ AggregateAndSummarise
    \/ ~rebuilt /\ FailPersistingPropertyGrowth
    \/ ~rebuilt /\ FailPersistingAggregates

SpecFail == Init /\ [][NextFail]_vars

-----------------------------------------------------------------------------
(* Direct calls of calculate_cagr on a grid of arguments.                   *)

CagrYears == {<<-1, 1>>, <<0, 1>>, <<2, 5>>, <<1, 2>>, <<1, 1>>, <<2, 1>>, <<5, 1>>}
CagrFirstPrices == {0, 50, 100, 200}
CagrLastPrices == {-200, 0, 50, 100, 150, 200}

InitCagr ==
    /\ cagr_args \in {<<f, l, y>> : f \in CagrFirstPrices, l \in CagrLastPrices,
                                    y \in CagrYears}
    /\ cagr_result = <<>>
    /\ summary_df = <<>>
    /\ InitLater
    /\ sales = <<>>
    /\ property_growth = <<>>
    /\ street_growth = <<>>
    /\ suburb_growth = <<>>
    /\ street_summary = <<>>
    /\ suburb_summary = <<>>
    /\ before = EmptyTables
    /\ pc = "idle"
    /\ df = <<>>
    /\ property_stats = <<>>
    /\ outcome = "none"
    /\ rebuilt = FALSE
    /\ derived = 0

CallCagr ==
    /\ cagr_result = <<>>
    /\ cagr_result' = <<calculate_cagr(cagr_args[1], cagr_args[2], cagr_args[3])>>
    /\ UNCHANGED <<sales, property_growth, street_growth, suburb_growth, street_summary,
                   suburb_summary, pc, df, property_stats, before, outcome, rebuilt,
                   derived, cagr_args, summary_df, laterVars>>

NextCagr == CallCagr

SpecCagr == InitCagr /\ [][NextCagr]_vars

-----------------------------------------------------------------------------
(* The top-performer classifier on summary frames of up to MaxGroups rows.  *)

MaxGroups == 4
Averages == {NULL} \cup {<<v>> : v \in {-(Scale \div 10), 0, Scale \div 10, Scale \div 5}}

RECURSIVE FramesOf(_)
FramesOf(n) ==
    IF n = 0 THEN {<<>>}
    ELSE LET shorter == FramesOf(n - 1)
         IN  shorter \cup {Append(f, [avg_cagr |-> a]) : f \in shorter, a \in Averages}

InitTop ==
    /\ summary_df \in FramesOf(MaxGroups)
    /\ InitLater
    /\ pc = "classify"
    /\ cagr_args = <<>>
    /\ cagr_result = <<>>
    /\ sales = <<>>
    /\ property_growth = <<>>
    /\ street_growth = <<>>
    /\ suburb_growth = <<>>
    /\ street_summary = <<>>
    /\ suburb_summary = <<>>
    /\ before = EmptyTables
    /\ df = <<>>
    /\ property_stats = <<>>
    /\ outcome = "none"
    /\ rebuilt = FALSE
    /\ derived = 0

\* Lines 191-192 (223-224): the frame gets its is_top_performer column.
ClassifySummary ==
    /\ pc = "classify"
    /\ LET is_top_performer == TopPerformerFlags(summary_df)
       IN  summary_df' = [k \in 1..Len(summary_df) |->
                             [avg_cagr |-> summary_df[k].avg_cagr,
                              is_top_performer |-> is_top_performer[k]]]
    /\ pc' = "classified"
    /\ UNCHANGED <<sales, property_growth, street_growth, suburb_growth, street_summary,
                   suburb_summary, df, property_stats, before, outcome, rebuilt,
                   derived, cagr_args, cagr_result, laterVars>>

NextTop == ClassifySummary

SpecTop == InitTop /\ [][NextTop]_vars

-----------------------------------------------------------------------------
(* Two runs of calculate_growth_metrics against one store.  Each run is a   *)
(* sequence of statements on its own session; the store is the SQLite file  *)
(* of database.py, which admits one write transaction at a time.            *)

RunIds == {1, 2}
OtherRun(r) == CHOOSE o \in RunIds : o # r

NoTransaction == [writer |-> 0, pending |-> EmptyTables, interleaved |-> FALSE]

\* A run that has not started.
AtStart == [at |-> "start", statement |-> 0, wrote |-> FALSE]

\* Sales tables of at most 2 rows, for the runs that share a store.
SmallDatasets == {s \in Datasets : Len(s) <= 2}

\* Lines 45-94: what a run finds after loading the sales table.
RunPlan(rows) ==
    IF NoSalesData(rows) THEN "return"
    ELSE LET stats == PropertyStats(Frame(rows))
         IN  IF \E i \in 1..Len(stats) : stats[i].raised \/ ~stats[i].real THEN "raise"
             ELSE IF SkipAggregation(stats) THEN "growth_only"
             ELSE "rebuild"

\* The statements a run issues in a stage, as numbered for
\* PropertyGrowthStatements and AggregateStatements.
StatementsOf(stage, new) ==
    IF stage = "growth" THEN PropertyGrowthStatements(new.property_growth)
    ELSE AggregateStatements(new)

\* The table a statement of a stage deletes from or inserts into; "commit"
\* for the last statement of the stage.
TargetOf(stage, k) ==
    IF stage = "growth"
    THEN IF k <= 2 THEN "property_growth" ELSE "commit"
    ELSE IF k <= 2 THEN "street_growth"
    ELSE IF k <= 4 THEN "suburb_growth"
    ELSE IF k <= 6 THEN "street_summary"
    ELSE IF k <= 8 THEN "suburb_summary"
    ELSE "commit"

\* Mutant: the store lets any session write at any time.
StoreAdmits_NoLock(r) == TRUE

\* database.py, lines 12-17: a session writes to the SQLite file inside its
\* own transaction; a write statement is admitted when no other session has
\* a write transaction open.
StoreAdmits(r) == txn.writer \in {0, r}

\* The tables as the writing session sees them.
ViewOfWriter == IF txn.writer = 0 THEN Tables ELSE txn.pending

\* db.query(T).delete() (odd statements) and the bulk insert (even ones).
ApplyStatement(view, stage, k, new) ==
    LET t == TargetOf(stage, k)
    IN  IF t = "commit" THEN view
        ELSE IF k % 2 = 1 THEN [view EXCEPT ![t] = <<>>]
        ELSE [view EXCEPT ![t] = view[t] \o new[t]]

\* Where a run stands after statement k of a stage.
AfterStatement(stage, k, new) ==
    LET later == {s \in StatementsOf(stage, new) : s > k}
    IN  IF later # {}
        THEN [at |-> stage, statement |-> CHOOSE s \in later : \A o \in later : s <= o,
              wrote |-> TRUE]
        ELSE IF stage = "growth" /\ ~SkipAggregation(new.property_growth)
        THEN [at |-> "aggregates", statement |-> 1, wrote |-> TRUE]   \* line 113
        ELSE [at |-> "returned", statement |-> 0, wrote |-> TRUE]     \* lines 111, 244

InStage(r) == run_pc[r].at \in {"growth", "aggregates"}

\* The run has issued a statement and has not ended.
UnderWay(r) == InStage(r) /\ run_pc[r].wrote

twoRunVars == <<sales, pc, df, property_stats, before, outcome, rebuilt, derived,
                cagr_args, cagr_result, summary_df, stations_csv, STATIONS_DF,
                nearest, bulk, ingest, verify_log>>

InitTwo ==
    /\ sales \in SmallDatasets
    /\ \E t \in PriorTables :
          /\ property_growth = t.property_growth
          /\ street_growth = t.street_growth
          /\ suburb_growth = t.suburb_growth
          /\ street_summary = t.street_summary
          /\ suburb_summary = t.suburb_summary
          /\ before = t
    /\ run_pc = [r \in RunIds |-> AtStart]
    /\ txn = NoTransaction
    /\ pc = "idle"
    /\ df = <<>>
    /\ property_stats = <<>>
    /\ outcome = "none"
    /\ rebuilt = FALSE
    /\ derived = 0
    /\ cagr_args = <<>>
    /\ cagr_result = <<>>
    /\ summary_df = <<>>
    /\ stations_csv = <<>>
    /\ STATIONS_DF = <<>>
    /\ nearest = <<>>
    /\ bulk = <<>>
    /\ ingest = <<>>
    /\ verify_log = <<>>

\* Lines 41-94 of run r: the sales are loaded and the growth records derived.
LoadSales(r) ==
    /\ run_pc[r].at = "start"
    /\ \E plan \in {RunPlan(sales)} :
          run_pc' = [run_pc EXCEPT ![r] =
                        IF plan = "return" THEN [AtStart EXCEPT !.at = "returned"]
                        ELSE IF plan = "raise" THEN [AtStart EXCEPT !.at = "raised"]
                        ELSE [AtStart EXCEPT !.at = "growth", !.statement = 1]]
    /\ UNCHANGED <<property_growth, street_growth, suburb_growth, street_summary,
                   suburb_summary, txn, twoRunVars>>

\* The next statement of run r (lines 97-107, 160-241), admitted by the store.
ExecuteStatement(r) ==
    /\ InStage(r)
    /\ StoreAdmits(r)
    /\ \E new \in {RebuiltTables(sales)} :
       \E view \in {ApplyStatement(ViewOfWriter, run_pc[r].at, run_pc[r].statement, new)} :
          /\ run_pc' = [run_pc EXCEPT ![r] =
                           AfterStatement(run_pc[r].at, run_pc[r].statement, new)]
          /\ IF TargetOf(run_pc[r].at, run_pc[r].statement) = "commit"
             THEN /\ property_growth' = ViewOfWriter.property_growth
                  /\ street_growth' = ViewOfWriter.street_growth
                  /\ suburb_growth' = ViewOfWriter.suburb_growth
                  /\ street_summary' = ViewOfWriter.street_summary
                  /\ suburb_summary' = ViewOfWriter.suburb_summary
                  /\ txn' = [NoTransaction EXCEPT
                                !.interleaved = txn.interleaved \/ UnderWay(OtherRun(r))]
             ELSE /\ txn' = [writer |-> r, pending |-> view,
                             interleaved |-> txn.interleaved \/ UnderWay(OtherRun(r))]
                  /\ UNCHANGED <<property_growth, street_growth, suburb_growth,
                                 street_summary, suburb_summary>>
    /\ UNCHANGED twoRunVars

\* The next statement of run r finds the store locked by the other run and
\* its wait times out: the statement raises, the run leaves through `finally`.
StoreBusy(r) ==
    /\ InStage(r)
    /\ ~StoreAdmits(r)
    /\ run_pc' = [run_pc EXCEPT ![r] = [run_pc[r] EXCEPT !.at = "locked"]]
    /\ txn' = [txn EXCEPT !.interleaved = TRUE]
    /\ UNCHANGED <<property_growth, street_growth, suburb_growth, street_summary,
                   suburb_summary, twoRunVars>>

NextTwo ==
    \/ \E r \in RunIds : LoadSales(r)
    \/ \E r \in RunIds : ExecuteStatement(r)
    \/ \E r \in RunIds : StoreBusy(r)

SpecTwo == InitTwo /\ [][NextTwo]_vars

-----------------------------------------------------------------------------
(* geocoding.py: load_stations and get_nearest_station.  Coordinates are    *)
(* <<latitude, longitude>> in units of 0.0001 degree; distances are metres. *)
(* An optional frame is <<>> (None) or <<rows>>.                            *)

SydneyPoint == <<-338688, 1512093>>        \* the point of test_logic.py, line 19
ParramattaPoint == <<-338100, 1510000>>
Points == {SydneyPoint, ParramattaPoint}

CentralAt == <<-338832, 1512070>>
TownHallAt == <<-338736, 1512069>>
ParramattaAt == <<-338170, 1510050>>
StrathfieldAt == <<-338717, 1510940>>

Station(name, at) == [Station |-> name, Latitude |-> at[1], Longitude |-> at[2]]

\* The rows a stations file is made of; two of them name the same place.
StationRows ==
    {Station("Central", CentralAt), Station("Sydney Terminal", CentralAt),
     Station("Town Hall", TownHallAt), Station("Parramatta", ParramattaAt),
     Station("Strathfield", StrathfieldAt)}

\* The most rows the stations file holds.
MaxStations == 3

RECURSIVE StationFrames(_)
StationFrames(n) ==
    IF n = 0 THEN {<<>>}
    ELSE LET shorter == StationFrames(n - 1)
         IN  shorter \cup {Append(f, s) : f \in shorter, s \in StationRows}

\* backend/data/stations.csv: absent, not readable as CSV, or a table.
StationFiles ==
    {[exists |-> FALSE, readable |-> FALSE, rows |-> <<>>],
     [exists |-> TRUE, readable |-> FALSE, rows |-> <<>>]}
    \cup {[exists |-> TRUE, readable |-> TRUE, rows |-> f] : f \in StationFrames(MaxStations)}

\* Lines 98-107: the value of the haversine formula (R = 6371 km), in metres,
\* for the points and stations above.
haversine_distance(lat1, lon1, lat2, lon2) ==
    LET from == <<lat1, lon1>>
        to == <<lat2, lon2>>
    IN  CASE from = SydneyPoint /\ to = CentralAt -> 1615
          [] from = SydneyPoint /\ to = TownHallAt -> 578
          [] from = SydneyPoint /\ to = ParramattaAt -> 19728
          [] from = SydneyPoint /\ to = StrathfieldAt -> 10650
          [] from = ParramattaPoint /\ to = CentralAt -> 20777
          [] from = ParramattaPoint /\ to = TownHallAt -> 20375
          [] from = ParramattaPoint /\ to = ParramattaAt -> 905
          [] from = ParramattaPoint /\ to = StrathfieldAt -> 11065

\* Lines 84-96: the frame load_stations returns, given the cached frame.
load_stations(cached, file) ==
    IF cached # <<>> THEN cached                          \* lines 85-86
    ELSE IF file.exists /\ file.readable THEN <<file.rows>>    \* line 91
    ELSE <<>>                                             \* lines 93, 95

\* Mutant: a station at the same distance replaces the one found.
Closer_OrEqual(dist, min_dist) == min_dist = <<>> \/ dist <= min_dist[1]

\* Line 131: dist < min_dist; min_dist is <<>> for float('inf').
Closer(dist, min_dist) == min_dist = <<>> \/ dist < min_dist[1]

\* Lines 127-133: the loop over the rows from row i on.
RECURSIVE NearestFrom(_, _, _, _, _)
NearestFrom(rows, i, point, min_dist, nearest_station) ==
    IF i > Len(rows) THEN [station |-> nearest_station, dist |-> min_dist]
    ELSE LET dist == haversine_distance(point[1], point[2],
                                        rows[i].Latitude, rows[i].Longitude)
         IN  IF Closer(dist, min_dist)
             THEN NearestFrom(rows, i + 1, point, <<dist>>, <<rows[i].Station>>)
             ELSE NearestFrom(rows, i + 1, point, min_dist, nearest_station)

\* Lines 120-135; (None, None) is station = <<>>, dist = <<>>.
get_nearest_station(stations, point) ==
    IF stations = <<>> \/ stations[1] = <<>> THEN [station |-> <<>>, dist |-> <<>>]
    ELSE NearestFrom(stations[1], 1, point, <<>>, <<>>)

stationVars == <<sales, property_growth, street_growth, suburb_growth, street_summary,
                 suburb_summary, pc, df, property_stats, before, outcome, rebuilt,
                 derived, cagr_args, cagr_result, summary_df, run_pc, txn, bulk,
                 ingest, verify_log>>

InitStation ==
    /\ stations_csv \in StationFiles
    /\ STATIONS_DF = <<>>
    /\ nearest = <<>>
    /\ sales = <<>>
    /\ property_growth = <<>>
    /\ street_growth = <<>>
    /\ suburb_growth = <<>>
    /\ street_summary = <<>>
    /\ suburb_summary = <<>>
    /\ before = EmptyTables
    /\ pc = "idle"
    /\ df = <<>>
    /\ property_stats = <<>>
    /\ outcome = "none"
    /\ rebuilt = FALSE
    /\ derived = 0
    /\ cagr_args = <<>>
    /\ cagr_result = <<>>
    /\ summary_df = <<>>
    /\ run_pc = <<>>
    /\ txn = <<>>
    /\ bulk = <<>>
    /\ ingest = <<>>
    /\ verify_log = <<>>

\* A call get_nearest_station(lat, lon), load_stations included.  The call
\* keeps what it was given: the point, the file and the cached frame.
GetNearestStation ==
    /\ \E point \in Points :
       \E frame \in {load_stations(STATIONS_DF, stations_csv)} :
          /\ STATIONS_DF' = frame
          /\ nearest' = [point |-> point, file |-> stations_csv, cached |-> STATIONS_DF,
                         result |-> get_nearest_station(frame, point)]
    /\ UNCHANGED <<stations_csv, stationVars>>

\* The file is removed while the process runs.
RemoveStationsFile ==
    /\ stations_csv.exists
    /\ stations_csv' = [exists |-> FALSE, readable |-> FALSE, rows |-> <<>>]
    /\ UNCHANGED <<STATIONS_DF, nearest, stationVars>>

NextStation == GetNearestStation \/ RemoveStationsFile

SpecStation == InitStation /\ [][NextStation]_vars

-----------------------------------------------------------------------------
(* The delete-then-chunked-insert of lines 160-165 (street_growth) and      *)
(* 206-209 (street_summary), statement by statement.  The records are       *)
(* numbered 1..n; a chunk is the pair <<first, last>> of the numbers of the *)
(* records one bulk_insert_mappings call inserts.                           *)

\* The most full chunks a list of records fills.
MaxChunks == 3

\* Lengths of the list of records: around every multiple of the chunk size.
RecordCounts ==
    {k * CHUNK_SIZE + d : k \in 0..MaxChunks, d \in {-1, 0, 1, CHUNK_SIZE \div 2}} \cap Nat

\* Numbers of rows the table holds before the replace.
PriorCounts == {0, 1, CHUNK_SIZE + 1}

\* Mutant: the slice is one record longer.
ChunkOf_OneMore(i, n) == <<i + 1, IF i + CHUNK_SIZE + 1 < n THEN i + CHUNK_SIZE + 1 ELSE n>>

\* records[i:i+10000], for 0 <= i < n = len(records).
ChunkOf(i, n) == <<i + 1, IF i + CHUNK_SIZE < n THEN i + CHUNK_SIZE ELSE n>>

chunkVars == <<sales, property_growth, street_growth, suburb_growth, street_summary,
               suburb_summary, pc, df, property_stats, before, outcome, rebuilt,
               derived, cagr_args, cagr_result, summary_df, run_pc, txn, stations_csv,
               STATIONS_DF, nearest, ingest, verify_log>>

InitChunk ==
    /\ bulk \in {[at |-> "delete", n |-> n, i |-> 0, prior |-> m, existing |-> m,
                  inserted |-> <<>>] : n \in RecordCounts, m \in PriorCounts}
    /\ sales = <<>>
    /\ property_growth = <<>>
    /\ street_growth = <<>>
    /\ suburb_growth = <<>>
    /\ street_summary = <<>>
    /\ suburb_summary = <<>>
    /\ before = EmptyTables
    /\ pc = "idle"
    /\ df = <<>>
    /\ property_stats = <<>>
    /\ outcome = "none"
    /\ rebuilt = FALSE
    /\ derived = 0
    /\ cagr_args = <<>>
    /\ cagr_result = <<>>
    /\ summary_df = <<>>
    /\ run_pc = <<>>
    /\ txn = <<>>
    /\ stations_csv = <<>>
    /\ STATIONS_DF = <<>>
    /\ nearest = <<>>
    /\ ingest = <<>>
    /\ verify_log = <<>>

\* Lines 160-161 (206-207): db.query(T).delete(), then `if records:`.
DeleteRows ==
    /\ bulk.at = "delete"
    /\ bulk' = [bulk EXCEPT !.existing = 0,
                            !.at = IF bulk.n > 0 THEN "insert" ELSE "done"]
    /\ UNCHANGED chunkVars

\* Lines 163-164 (208-209): one pass of the loop over range(0, n, 10000).
InsertChunk ==
    /\ bulk.at = "insert"
    /\ bulk' = [bulk EXCEPT !.inserted = Append(bulk.inserted, ChunkOf(bulk.i, bulk.n)),
                            !.i = bulk.i + CHUNK_SIZE,
                            !.at = IF bulk.i + CHUNK_SIZE < bulk.n THEN "insert"
                                                                   ELSE "done"]
    /\ UNCHANGED chunkVars

NextChunk == DeleteRows \/ InsertChunk

SpecChunk == InitChunk /\ [][NextChunk]_vars

-----------------------------------------------------------------------------
(* ingest.py, ingest_data, lines 179-199: the sales table is wiped and the  *)
(* parsed records are inserted and committed chunk by chunk.  The records   *)
(* are numbered 1..n.  The content of the sales table is the number of rows *)
(* it keeps from before the run and the chunks <<first, last>> of new       *)
(* records it holds.                                                        *)

\* Line 186: chunk_size = 5000.
INGEST_CHUNK_SIZE == 5000

\* The most full chunks the parsed records fill.
MaxIngestChunks == 3

\* len(all_records): around every multiple of the chunk size.
ParsedCounts ==
    {k * INGEST_CHUNK_SIZE + d :
        k \in 0..MaxIngestChunks, d \in {-1, 0, 1, INGEST_CHUNK_SIZE \div 2}} \cap Nat

\* Numbers of rows the sales table holds before the run.
PriorSalesCounts == {0, 1, INGEST_CHUNK_SIZE + 1}

SalesContent(kept, chunks) == [kept |-> kept, chunks |-> chunks]

\* all_records[i:i + chunk_size], for 0 <= i < n.
IngestChunkOf(i, n) ==
    <<i + 1, IF i + INGEST_CHUNK_SIZE < n THEN i + INGEST_CHUNK_SIZE ELSE n>>

\* The number of the chunk the loop is at.
ChunkNumber(i) == (i \div INGEST_CHUNK_SIZE) + 1

\* Mutant: the failed transaction is committed instead of rolled back.
Rollback_Commits(committed, pending) == pending

\* Lines 195 and 197: db.rollback() and db.close() drop what the open
\* transaction has written.
Rollback(committed, pending) == committed

\* A bulk insert that fails has written the first half of its chunk.
PartChunk(chunk) == <<chunk[1], chunk[1] + ((chunk[2] - chunk[1]) \div 2)>>

ingestVars == <<sales, property_growth, street_growth, suburb_growth, street_summary,
                suburb_summary, pc, df, property_stats, before, outcome, rebuilt,
                derived, cagr_args, cagr_result, summary_df, run_pc, txn, stations_csv,
                STATIONS_DF, nearest, bulk, verify_log>>

\* `failing` is the number of the chunk whose insert fails (0: none does).
InitIngest ==
    /\ ingest \in {[at |-> "delete", n |-> n, i |-> 0, failing |-> f, prior |-> m,
                    table |-> SalesContent(m, <<>>), pending |-> SalesContent(m, <<>>),
                    logged |-> FALSE, raised |-> FALSE] :
                      n \in ParsedCounts, m \in PriorSalesCounts,
                      f \in 0..(MaxIngestChunks + 1)}
    /\ sales = <<>>
    /\ property_growth = <<>>
    /\ street_growth = <<>>
    /\ suburb_growth = <<>>
    /\ street_summary = <<>>
    /\ suburb_summary = <<>>
    /\ before = EmptyTables
    /\ pc = "idle"
    /\ df = <<>>
    /\ property_stats = <<>>
    /\ outcome = "none"
    /\ rebuilt = FALSE
    /\ derived = 0
    /\ cagr_args = <<>>
    /\ cagr_result = <<>>
    /\ summary_df = <<>>
    /\ run_pc = <<>>
    /\ txn = <<>>
    /\ stations_csv = <<>>
    /\ STATIONS_DF = <<>>
    /\ nearest = <<>>
    /\ bulk = <<>>
    /\ verify_log = <<>>

\* Line 183: db.query(Sale).delete(), inside the session's transaction.
DeleteSales ==
    /\ ingest.at = "delete"
    /\ ingest' = [ingest EXCEPT !.pending = SalesContent(0, <<>>),
                                !.at = IF ingest.n > 0 THEN "insert" ELSE "close"]
    /\ UNCHANGED ingestVars

\* Lines 188-189: the insert of the next chunk succeeds.
InsertSalesChunk ==
    /\ ingest.at = "insert"
    /\ ChunkNumber(ingest.i) # ingest.failing
    /\ ingest' = [ingest EXCEPT
                     !.pending = SalesContent(ingest.pending.kept,
                                              Append(ingest.pending.chunks,
                                                     IngestChunkOf(ingest.i, ingest.n))),
                     !.at = "commit"]
    /\ UNCHANGED ingestVars

\* Lines 189 and 193-199: the insert of the next chunk raises; the handler
\* logs the error and rolls back, the session is closed, ingest_data returns.
FailSalesChunk ==
    /\ ingest.at = "insert"
    /\ ChunkNumber(ingest.i) = ingest.failing
    /\ LET written == SalesContent(ingest.pending.kept,
                                   Append(ingest.pending.chunks,
                                          PartChunk(IngestChunkOf(ingest.i, ingest.n))))
       IN  ingest' = [ingest EXCEPT !.table = Rollback(ingest.table, written),
                                    !.pending = Rollback(ingest.table, written),
                                    !.logged = TRUE,
                                    !.at = "done"]
    /\ UNCHANGED ingestVars

\* Lines 190-191: db.commit(), and the loop goes on or ends.
CommitSalesChunk ==
    /\ ingest.at = "commit"
    /\ ingest' = [ingest EXCEPT !.table = ingest.pending,
                                !.i = ingest.i + INGEST_CHUNK_SIZE,
                                !.at = IF ingest.i + INGEST_CHUNK_SIZE < ingest.n
                                       THEN "insert" ELSE "close"]
    /\ UNCHANGED ingestVars

\* Lines 196-199 after the loop: db.close() ends the open transaction.
CloseIngestSession ==
    /\ ingest.at = "close"
    /\ ingest' = [ingest EXCEPT !.table = Rollback(ingest.table, ingest.pending),
                                !.pending = Rollback(ingest.table, ingest.pending),
                                !.at = "done"]
    /\ UNCHANGED ingestVars

NextIngest ==
    \/ DeleteSales
    \/ InsertSalesChunk
    \/ FailSalesChunk
    \/ CommitSalesChunk
    \/ CloseIngestSession

SpecIngest == InitIngest /\ [][NextIngest]_vars

-----------------------------------------------------------------------------
(* verify_cagr.py, verify_cagr: the stored cagr of the first growth rows   *)
(* is recomputed from the sales table and compared.  The sales table is    *)
(* drawn from rows of two properties sold on three days, 100 days and four *)
(* years apart, for 0, 100 or 200, and one row without a price; the growth *)
(* table is then written by calculate_growth_metrics and read back.        *)

\* Line 14: .limit(5).
VERIFY_LIMIT == 5

\* Line 52: diff < 0.0001.
VERIFY_TOLERANCE == Scale \div (100 * 100)

\* The most rows of the sales table under verify_cagr.
MaxVerifySales == 3

VerifyDates == {D2001Jan, D2001Apr, D2005Jan}

VerifyRows ==
    {Sale(pid, <<d>>, <<p>>, A1) : pid \in {1, 2}, d \in VerifyDates, p \in Prices}
    \cup {Sale(1, <<D2005Jan>>, NULL, A1)}

VerifyDatasets ==
    UNION {{s \in [1..n -> VerifyRows] :
               \A i \in 1..(n - 1) : RowRank(s[i]) >= RowRank(s[i + 1])}
           : n \in 0..MaxVerifySales}

\* Lines 45-107: the property_growth table after a run over `rows`; a run
\* that returns early or raises leaves the table as it was.
StoredGrowth(existing, rows) ==
    IF RunPlan(rows) \in {"growth_only", "rebuild"}
    THEN PropertyGrowthRecords(PropertyStats(Frame(rows)))
    ELSE existing

\* Line 14: the first rows of the table.
growth_entries(table) ==
    SubSeq(table, 1, IF Len(table) < VERIFY_LIMIT THEN Len(table) ELSE VERIFY_LIMIT)

\* Line 22: the sales of the property by contract date (every date of the
\* model is set), rows of one date in table order.
VerifySalesOf(rows, pid) ==
    SortValues(SelectSeq(rows, LAMBDA r : r.property_id = pid))

\* Mutant: the recomputation has the half-year rule of calculate_cagr.
Recalc_HalfYearRule(p_start, p_end, years) ==
    IF p_start > 0 /\ ~LessThanHalfYear(years)
    THEN Pow(FixDiv(p_end, p_start), <<years[2], years[1]>>) - Scale
    ELSE 0

\* Lines 40-43.
Recalc(p_start, p_end, years) ==
    IF p_start > 0 /\ years[1] > 0
    THEN Pow(FixDiv(p_end, p_start), <<years[2], years[1]>>) - Scale
    ELSE 0

\* Lines 17-55 for one entry: what is logged, or "skipped" (the continue of
\* lines 24 and 35).
VerifyEntry(entry, rows) ==
    LET found == VerifySalesOf(rows, entry.property_id)
    IN  IF found = <<>> THEN [property_id |-> entry.property_id, verdict |-> "skipped"]
        ELSE LET first_sale == found[1]
                 last_sale == found[Len(found)]
             IN  IF IsNull(first_sale.purchase_price) \/ IsNull(last_sale.purchase_price)
                 THEN [property_id |-> entry.property_id, verdict |-> "skipped"]
                 ELSE LET p_start == first_sale.purchase_price[1]
                          p_end == last_sale.purchase_price[1]
                          years == YearsBetween(first_sale.contract_date[1],
                                                last_sale.contract_date[1])
                          calc_cagr == Recalc(p_start, p_end, years)
                          diff == Abs(calc_cagr - entry.cagr)
                      IN  [property_id |-> entry.property_id,
                           p_start |-> p_start, p_end |-> p_end, years |-> years,
                           calc_cagr |-> calc_cagr, stored_cagr |-> entry.cagr,
                           verdict |-> IF diff < VERIFY_TOLERANCE THEN "PASS" ELSE "FAIL"]

verifyVars == <<street_growth, suburb_growth, street_summary, suburb_summary, pc, df,
                property_stats, before, outcome, rebuilt, derived, cagr_args,
                cagr_result, summary_df, run_pc, txn, stations_csv, STATIONS_DF,
                nearest, bulk, ingest>>

InitVerify ==
    /\ sales \in VerifyDatasets
    /\ property_growth = <<>>
    /\ verify_log = [at |-> "calculate", entries |-> <<>>, lines |-> <<>>]
    /\ street_growth = <<>>
    /\ suburb_growth = <<>>
    /\ street_summary = <<>>
    /\ suburb_summary = <<>>
    /\ before = EmptyTables
    /\ pc = "idle"
    /\ df = <<>>
    /\ property_stats = <<>>
    /\ outcome = "none"
    /\ rebuilt = FALSE
    /\ derived = 0
    /\ cagr_args = <<>>
    /\ cagr_result = <<>>
    /\ summary_df = <<>>
    /\ run_pc = <<>>
    /\ txn = <<>>
    /\ stations_csv = <<>>
    /\ STATIONS_DF = <<>>
    /\ nearest = <<>>
    /\ bulk = <<>>
    /\ ingest = <<>>

\* calculate_growth_metrics(), as far as the property_growth table goes.
CalculateGrowth ==
    /\ verify_log.at = "calculate"
    /\ property_growth' = StoredGrowth(property_growth, sales)
    /\ verify_log' = [verify_log EXCEPT !.at = "query"]
    /\ UNCHANGED <<sales, verifyVars>>

\* Line 14: verify_cagr() reads the entries to check.
QueryGrowthEntries ==
    /\ verify_log.at = "query"
    /\ verify_log' = [verify_log EXCEPT
                         !.entries = growth_entries(property_growth),
                         !.at = IF property_growth = <<>> THEN "done" ELSE "entry"]
    /\ UNCHANGED <<sales, property_growth, verifyVars>>

\* Lines 16-56: one turn of the loop.
VerifyNextEntry ==
    /\ verify_log.at = "entry"
    /\ LET line == VerifyEntry(Head(verify_log.entries), sales)
       IN  verify_log' = [verify_log EXCEPT
                             !.entries = Tail(verify_log.entries),
                             !.lines = IF line.verdict = "skipped" THEN @
                                       ELSE Append(@, line),
                             !.at = IF Tail(verify_log.entries) = <<>> THEN "done"
                                    ELSE "entry"]
    /\ UNCHANGED <<sales, property_growth, verifyVars>>

NextVerify ==
    \/ CalculateGrowth
    \/ QueryGrowthEntries
    \/ VerifyNextEntry

SpecVerify == InitVerify /\ [][NextVerify]_vars

-----------------------------------------------------------------------------
(* What the properties read off the sales table, independently of the frame. *)

PropertyIdsSeen == {1, 2, 3}

IsValidRow(r) == ~IsNull(r.contract_date) /\ ~IsNull(r.purchase_price)

\* The positions of the valid sales of a property.
ValidSales(pid) ==
    {i \in 1..Len(sales) : sales[i].property_id = pid /\ IsValidRow(sales[i])}

Qualifies(pid) == Cardinality(ValidSales(pid)) >= 2
Qualifying == {pid \in PropertyIdsSeen : Qualifies(pid)}

\* The earliest valid sale of a property; of several on that date, the first row.
EarliestSale(pid) ==
    sales[CHOOSE i \in ValidSales(pid) : \A j \in ValidSales(pid) :
              \/ sales[i].contract_date[1] < sales[j].contract_date[1]
              \/ sales[i].contract_date[1] = sales[j].contract_date[1] /\ i <= j]

\* The calendar year of the latest valid sale of a property.
LatestSaleYear(pid) ==
    CHOOSE y \in {YearOf(sales[i].contract_date[1]) : i \in ValidSales(pid)} :
        \A i \in ValidSales(pid) : YearOf(sales[i].contract_date[1]) <= y

GrowthStreetOf(pid) ==
    LET e == EarliestSale(pid)
    IN  <<e.property_street_name, e.property_locality,
          IF IsNull(e.property_post_code) THEN 0 ELSE e.property_post_code[1]>>

GrowthSuburbOf(pid) == EarliestSale(pid).property_locality

RowsOfProperty(pid) == SelectSeq(property_growth, LAMBDA r : r.property_id = pid)

\* The last run went through every stage and committed at line 241.
FullyRebuilt == pc = "idle" /\ outcome = "returned" /\ sales # <<>> /\ derived > 0

\* A run has ended and none is under way.
RunEnded == pc = "idle" /\ rebuilt

BeforeAggregates ==
    <<before.street_growth, before.suburb_growth, before.street_summary,
      before.suburb_summary>>
Aggregates == <<street_growth, suburb_growth, street_summary, suburb_summary>>

-----------------------------------------------------------------------------
(* The inclusion rule of the per-year aggregates, read off the sales table  *)
(* and the stored property cagr.                                            *)

\* Per property with at least 2 valid sales: where its growth record is
\* grouped, the year of its latest valid sale, and its stored cagr.
GrowthFacts ==
    [p \in Qualifying |->
        [street |-> GrowthStreetOf(p), suburb |-> GrowthSuburbOf(p),
         last_sale_year |-> LatestSaleYear(p), cagr |-> RowsOfProperty(p)[1].cagr]]

\* The properties of `pids` whose latest valid sale is in `year` or later.
Eligible(facts, pids, year) == SelectSeq(pids, LAMBDA p : facts[p].last_sale_year >= year)

AverageOf(facts, pids) == Sum([k \in 1..Len(pids) |-> facts[pids[k]].cagr]) \div Len(pids)

\* One row per year of years_range and street with an eligible property.
StreetRowsByRule(facts) ==
    LET pids == Ascending(DOMAIN facts)
    IN  UNION {
            LET eligible == Eligible(facts, pids, year)
            IN  {LET here == SelectSeq(eligible, LAMBDA p : facts[p].street = key)
                 IN  [street_name |-> key[1], suburb |-> key[2], post_code |-> key[3],
                      year |-> year, avg_cagr |-> AverageOf(facts, here),
                      property_count |-> Len(here)] :
                    key \in {facts[eligible[k]].street : k \in 1..Len(eligible)}} :
            year \in years_range}

SuburbRowsByRule(facts) ==
    LET pids == Ascending(DOMAIN facts)
    IN  UNION {
            LET eligible == Eligible(facts, pids, year)
            IN  {LET here == SelectSeq(eligible, LAMBDA p : facts[p].suburb = suburb)
                 IN  [suburb |-> suburb, year |-> year,
                      avg_cagr |-> AverageOf(facts, here), property_count |-> Len(here)] :
                    suburb \in {facts[eligible[k]].suburb : k \in 1..Len(eligible)}} :
            year \in years_range}

\* The table holds exactly the rows of `expected`, each once.
HoldsExactly(table, expected) ==
    /\ {table[i] : i \in 1..Len(table)} = expected
    /\ Len(table) = Cardinality(expected)

\* Within years_range: after a complete rebuild street_growth and
\* suburb_growth hold exactly the rows of the inclusion rule
\* (last_sale_year >= Y), each once.
InclusionRuleWithinRange ==
    FullyRebuilt =>
        LET facts == GrowthFacts
        IN  /\ HoldsExactly(street_growth, StreetRowsByRule(facts))
            /\ HoldsExactly(suburb_growth, SuburbRowsByRule(facts))

\* A property with a growth record has a row of its street and of its suburb
\* in every year from FIRST_YEAR up to and including its last_sale_year.
CountedThroughLastSaleYear ==
    \A p \in Qualifying : \A year \in FIRST_YEAR..LatestSaleYear(p) :
        /\ \E i \in 1..Len(street_growth) :
              /\ street_growth[i].year = year
              /\ <<street_growth[i].street_name, street_growth[i].suburb,
                   street_growth[i].post_code>> = GrowthStreetOf(p)
        /\ \E i \in 1..Len(suburb_growth) :
              /\ suburb_growth[i].year = year
              /\ suburb_growth[i].suburb = GrowthSuburbOf(p)

(* C1 - inclusion rule.  After a complete rebuild, for every year Y of the  *)
(* analysis range a property's growth record is counted and averaged in the *)
(* row of its street (suburb) and year Y iff its last_sale_year >= Y; so it *)
(* is counted in every year from 2001 up to and including its              *)
(* last_sale_year, and in no later year.                                    *)
C1_InclusionRule ==
    InclusionRuleWithinRange /\ (FullyRebuilt => CountedThroughLastSaleYear)

\* Two properties of one street, last sold in 2001 and in 2005: the street's
\* rows count both in 2001, one from 2002 to 2005, and there is no 2006 row.
InclusionRuleWitness ==
    /\ FullyRebuilt
    /\ Qualifying = {1, 2}
    /\ GrowthStreetOf(1) = GrowthStreetOf(2)
    /\ LatestSaleYear(1) = 2001
    /\ LatestSaleYear(2) = 2005
    /\ \E i \in 1..Len(street_growth) :
          street_growth[i].year = 2001 /\ street_growth[i].property_count = 2
    /\ \E i \in 1..Len(street_growth) :
          street_growth[i].year = 2005 /\ street_growth[i].property_count = 1
    /\ \A i \in 1..Len(street_growth) : street_growth[i].year <= 2005

-----------------------------------------------------------------------------
(* C2 - after a rebuild that derived at least one growth record,            *)
(* property_growth holds exactly one row for each property with at least 2  *)
(* valid sales and no row for any other property.                           *)
C2_ExactlyQualifying ==
    (RunEnded /\ derived > 0) =>
        \A pid \in PropertyIdsSeen :
            Len(RowsOfProperty(pid)) = IF Qualifies(pid) THEN 1 ELSE 0

-----------------------------------------------------------------------------
(* Direct calls: the arguments and the result of the call.                  *)

FirstPriceArg == cagr_args[1]
LastPriceArg == cagr_args[2]
YearsArg == cagr_args[3]
Called == cagr_result # <<>>
ShortHolding == 2 * YearsArg[1] < YearsArg[2]

\* q is the fixed-point quotient num / den (den > 0).
IsQuotient(q, num, den) == q * den <= num * Scale /\ num * Scale < (q + 1) * den

\* Two fixed-point numbers differ by at most 0.0005.
Close(x, y) == Abs(x - y) <= 500

(* C3 - for years < 0.5 (years = 0 included) and a positive first price the  *)
(* call returns cagr = 0.0 and total_growth = (last - first) / first.       *)
C3_ShortHoldingHasNoCagr ==
    (Called /\ ShortHolding /\ FirstPriceArg > 0) =>
        /\ ~cagr_result[1].raised
        /\ cagr_result[1].real
        /\ cagr_result[1].cagr = 0
        /\ IsQuotient(cagr_result[1].total_growth, LastPriceArg - FirstPriceArg,
                      FirstPriceArg)

\* calculate_cagr(100.0, 200.0, 0.4) has returned (0.0, 1.0).
C3_Witness ==
    /\ cagr_args = <<100, 200, <<2, 5>>>>
    /\ Called
    /\ cagr_result[1].cagr = 0
    /\ cagr_result[1].total_growth = Scale

(* C4 - for years >= 0.5 and positive prices the call returns                *)
(* cagr = (last / first) ** (1 / years) - 1, that is (1 + cagr) ** years =   *)
(* last / first, and total_growth = (last - first) / first; (100, 200, 1.0) *)
(* gives (1.0, 1.0), (100, 50, 1.0) gives (-0.5, -0.5) and (100, 150, 5.0)  *)
(* gives about (0.08447, 0.5).                                              *)
C4_CagrFormula ==
    (Called /\ ~ShortHolding /\ FirstPriceArg > 0 /\ LastPriceArg > 0) =>
        LET r == cagr_result[1]
            ratio == (LastPriceArg * Scale) \div FirstPriceArg
        IN  /\ ~r.raised
            /\ r.real
            /\ IsQuotient(r.total_growth, LastPriceArg - FirstPriceArg, FirstPriceArg)
            /\ YearsArg[2] = 1 => Close(IntPow(Scale + r.cagr, YearsArg[1]), ratio)
            /\ YearsArg = <<1, 2>> => Close(Scale + r.cagr, FixMul(ratio, ratio))
            /\ cagr_args = <<100, 200, <<1, 1>>>> =>
                   r.cagr = Scale /\ r.total_growth = Scale
            /\ cagr_args = <<100, 50, <<1, 1>>>> =>
                   r.cagr = -(Scale \div 2) /\ r.total_growth = -(Scale \div 2)
            /\ cagr_args = <<100, 150, <<5, 1>>>> =>
                   Abs(r.cagr - 84470) <= 10 /\ r.total_growth = Scale \div 2

\* calculate_cagr(100.0, 150.0, 5.0) has returned about (0.08447, 0.5).
C4_Witness ==
    /\ cagr_args = <<100, 150, <<5, 1>>>>
    /\ Called
    /\ Abs(cagr_result[1].cagr - 84470) <= 10
    /\ cagr_result[1].total_growth = Scale \div 2

\* The arguments make (last / first) ** (1 / years) undefined over the reals:
\* a zero first price, or a negative ratio with a fractional exponent.
DomainError ==
    \/ FirstPriceArg = 0
    \/ /\ FirstPriceArg * LastPriceArg < 0
       /\ YearsArg[2] % YearsArg[1] # 0

(* C5 - for years >= 0.5, a domain error in (last / first) ** (1 / years)    *)
(* - 1 (a division by zero, or a non-real power of a negative base) makes   *)
(* the call return cagr = 0.0 without raising.                              *)
C5_DomainErrorGivesZero ==
    (Called /\ ~ShortHolding /\ DomainError) =>
        /\ ~cagr_result[1].raised
        /\ cagr_result[1].real
        /\ cagr_result[1].cagr = 0

-----------------------------------------------------------------------------
HasZeroFirstPrice(pid) == Qualifies(pid) /\ EarliestSale(pid).purchase_price[1] = 0

(* C6 - a property whose growth computation hits a numeric domain error (a  *)
(* first sale price of 0) does not abort the batch: the run raises nothing, *)
(* the property is recorded with cagr = 0.0, and every property with at     *)
(* least 2 valid sales has its row in property_growth.                      *)
C6_DomainErrorDoesNotAbort ==
    (RunEnded /\ \E pid \in PropertyIdsSeen : HasZeroFirstPrice(pid)) =>
        /\ outcome = "returned"
        /\ \A pid \in Qualifying :
              /\ Len(RowsOfProperty(pid)) = 1
              /\ HasZeroFirstPrice(pid) => RowsOfProperty(pid)[1].cagr = 0

-----------------------------------------------------------------------------
(* C7 - with an empty sales table the run returns and all five derived      *)
(* tables hold exactly the rows they held when it started.                  *)
C7_EmptySalesTouchNothing ==
    (RunEnded /\ sales = <<>>) => (outcome = "returned" /\ Tables = before)

\* A run over an empty sales table has ended and the rows of the earlier data
\* set are still in all five tables.
C7_Witness ==
    /\ RunEnded
    /\ sales = <<>>
    /\ Tables = RebuiltTables(OldSales)
    /\ property_growth # <<>>
    /\ suburb_summary # <<>>

-----------------------------------------------------------------------------
(* C8 - with sales but no property of 2 valid sales, the later stages are   *)
(* skipped: street_growth, suburb_growth, street_summary and suburb_summary *)
(* keep exactly the rows they held when the run started.                    *)
C8_NoGrowthKeepsAggregates ==
    (RunEnded /\ sales # <<>> /\ Qualifying = {}) =>
        (outcome = "returned" /\ Aggregates = BeforeAggregates)

\* Such a run has ended over a table with a valid sale; the four tables still
\* hold the earlier data set's rows.
C8_Witness ==
    /\ RunEnded
    /\ Qualifying = {}
    /\ \E i \in 1..Len(sales) : IsValidRow(sales[i])
    /\ street_growth # <<>>
    /\ street_growth = RebuiltTables(OldSales).street_growth
    /\ suburb_summary = RebuiltTables(OldSales).suburb_summary

-----------------------------------------------------------------------------
AllMalformed == sales # <<>> /\ \A i \in 1..Len(sales) : ~IsValidRow(sales[i])

(* C9 - as specified: when every sale row is malformed, the run returns and *)
(* leaves every derived table untouched, property_growth included.          *)
C9_AllMalformedTouchNothing ==
    (RunEnded /\ AllMalformed) => (outcome = "returned" /\ Tables = before)

(* C9, amended - when every sale row is malformed, the run returns without  *)
(* error and leaves street_growth, suburb_growth, street_summary and        *)
(* suburb_summary untouched; property_growth is emptied.                    *)
C9_AllMalformedWipesPropertyGrowthOnly ==
    (RunEnded /\ AllMalformed) =>
        /\ outcome = "returned"
        /\ Aggregates = BeforeAggregates
        /\ property_growth = <<>>

\* The first run over malformed rows only has ended: the earlier rows of
\* property_growth are gone, those of the other four tables are still there.
C9_Witness ==
    /\ RunEnded
    /\ AllMalformed
    /\ before.property_growth # <<>>
    /\ property_growth = <<>>
    /\ street_growth # <<>>
    /\ Aggregates = BeforeAggregates

-----------------------------------------------------------------------------
(* C10 - idempotence.  Every step that ends a run when a run has already    *)
(* ended on the same sales table leaves all five tables as they were when   *)
(* this run started.                                                        *)
C10_Idempotent == [][(rebuilt /\ pc' = "idle") => Tables' = before']_vars

\* A second complete rebuild has ended: it started from the rows of the
\* first one (not from the earlier data set's) and left them as they were.
C10_Witness ==
    /\ FullyRebuilt
    /\ before = Tables
    /\ street_growth # <<>>
    /\ street_summary # <<>>
    /\ property_growth[1].property_id # 3

-----------------------------------------------------------------------------
\* The rows a complete run over the sales table writes to each table.
ComputedTables == RebuiltTables(sales)

TableNames ==
    {"property_growth", "street_growth", "suburb_growth", "street_summary",
     "suburb_summary"}

(* C11 - after a run that failed, each derived table holds either exactly   *)
(* the rows it held when the run started or exactly the complete rows this  *)
(* run computed for it: never a wiped or partly inserted table.             *)
C11_FailedRunCommitsNoPartialStage ==
    (RunEnded /\ outcome = "raised") =>
        \A t \in TableNames :
            Tables[t] = before[t] \/ Tables[t] = ComputedTables[t]

\* A run has failed in the later stages: property_growth holds the new rows it
\* committed, the other four tables the earlier data set's rows.
C11_Witness ==
    /\ RunEnded
    /\ outcome = "raised"
    /\ property_growth # <<>>
    /\ property_growth # before.property_growth
    /\ street_growth # <<>>
    /\ Aggregates = BeforeAggregates

-----------------------------------------------------------------------------
(* The raw sales of a property, a street and a suburb.                      *)

SalesOf(pid) == {i \in 1..Len(sales) : sales[i].property_id = pid}
HasSingleSale(pid) == Cardinality(SalesOf(pid)) = 1
OnlySale(pid) == sales[CHOOSE i \in SalesOf(pid) : TRUE]

RawStreetOf(r) == <<r.property_street_name, r.property_locality, r.property_post_code>>

\* The sales of the street of row r, the post code recorded or not as in r.
SalesOfStreet(key) == {i \in 1..Len(sales) : RawStreetOf(sales[i]) = key}
SalesOfSuburb(suburb) == {i \in 1..Len(sales) : sales[i].property_locality = suburb}

\* The summary rows of the street of a sale (of any post code when the sale
\* records none) and of its suburb.
StreetSummaryRowsOf(r) ==
    {i \in 1..Len(street_summary) :
        /\ street_summary[i].street_name = r.property_street_name
        /\ street_summary[i].suburb = r.property_locality
        /\ IsNull(r.property_post_code)
           \/ street_summary[i].post_code = r.property_post_code[1]}
SuburbSummaryRowsOf(r) ==
    {i \in 1..Len(suburb_summary) : suburb_summary[i].suburb = r.property_locality}

\* The number of properties with a growth record in a street, in a suburb.
GrowthRecordsInStreet(key) == Cardinality({p \in Qualifying : GrowthStreetOf(p) = key})
GrowthRecordsInSuburb(suburb) == Cardinality({p \in Qualifying : GrowthSuburbOf(p) = suburb})

\* The valid sales of the other properties among a set of sales.
ValidSalesOfOthers(pid, group) ==
    Cardinality({i \in group : sales[i].property_id # pid /\ IsValidRow(sales[i])})

(* C12 - after a complete rebuild, a property with exactly 1 sale has no    *)
(* row in property_growth, no street_growth or suburb_growth row counts     *)
(* more properties than have a growth record there, and the summary rows of *)
(* its street and of its suburb exist and count its sale in total_sales on  *)
(* top of the valid sales of the other properties.                          *)
C12_SingleSaleOnlyInTotalSales ==
    FullyRebuilt =>
        /\ \A i \in 1..Len(street_growth) :
              street_growth[i].property_count <=
                  GrowthRecordsInStreet(<<street_growth[i].street_name,
                                          street_growth[i].suburb,
                                          street_growth[i].post_code>>)
        /\ \A i \in 1..Len(suburb_growth) :
              suburb_growth[i].property_count <=
                  GrowthRecordsInSuburb(suburb_growth[i].suburb)
        /\ \A pid \in PropertyIdsSeen :
              HasSingleSale(pid) =>
                  LET r == OnlySale(pid)
                  IN  /\ RowsOfProperty(pid) = <<>>
                      /\ StreetSummaryRowsOf(r) # {}
                      /\ \A i \in StreetSummaryRowsOf(r) :
                            street_summary[i].total_sales >=
                                1 + ValidSalesOfOthers(pid, SalesOfStreet(RawStreetOf(r)))
                      /\ SuburbSummaryRowsOf(r) # {}
                      /\ \A i \in SuburbSummaryRowsOf(r) :
                            suburb_summary[i].total_sales >=
                                1 + ValidSalesOfOthers(pid,
                                                       SalesOfSuburb(r.property_locality))

\* The part that holds: with its one sale valid and its post code recorded.
SingleValidSaleIsCounted ==
    FullyRebuilt =>
        \A pid \in PropertyIdsSeen :
            (HasSingleSale(pid) /\ IsValidRow(OnlySale(pid))
                 /\ ~IsNull(OnlySale(pid).property_post_code)) =>
                LET r == OnlySale(pid)
                IN  /\ RowsOfProperty(pid) = <<>>
                    /\ StreetSummaryRowsOf(r) # {}
                    /\ \A i \in StreetSummaryRowsOf(r) :
                          street_summary[i].total_sales =
                              1 + ValidSalesOfOthers(pid, SalesOfStreet(RawStreetOf(r)))
                    /\ \A i \in SuburbSummaryRowsOf(r) :
                          suburb_summary[i].total_sales =
                              1 + ValidSalesOfOthers(pid, SalesOfSuburb(r.property_locality))

-----------------------------------------------------------------------------
(* The raw sales behind a summary row.                                      *)

SalesOfStreetRow(row) == SalesOfStreet(<<row.street_name, row.suburb, <<row.post_code>>>>)
SalesOfSuburbRow(row) == SalesOfSuburb(row.suburb)
PropertiesOf(group) == {sales[i].property_id : i \in group}
ValidOf(group) == {i \in group : IsValidRow(sales[i])}

(* C13 - after a complete rebuild, unique_properties of every street_summary *)
(* and suburb_summary row is the number of distinct property_id among the   *)
(* raw sales of that street or suburb.                                      *)
C13_UniquePropertiesOfRawSales ==
    FullyRebuilt =>
        /\ \A i \in 1..Len(street_summary) :
              street_summary[i].unique_properties =
                  Cardinality(PropertiesOf(SalesOfStreetRow(street_summary[i])))
        /\ \A i \in 1..Len(suburb_summary) :
              suburb_summary[i].unique_properties =
                  Cardinality(PropertiesOf(SalesOfSuburbRow(suburb_summary[i])))

\* What holds: the distinct property_id among the sales with a date and a
\* price, whether the property has a growth record or not.
UniquePropertiesOfValidSales ==
    FullyRebuilt =>
        /\ \A i \in 1..Len(street_summary) :
              street_summary[i].unique_properties =
                  Cardinality(PropertiesOf(ValidOf(SalesOfStreetRow(street_summary[i]))))
        /\ \A i \in 1..Len(suburb_summary) :
              suburb_summary[i].unique_properties =
                  Cardinality(PropertiesOf(ValidOf(SalesOfSuburbRow(suburb_summary[i]))))

(* C14 - after a complete rebuild, total_sales of every street_summary and  *)
(* suburb_summary row is the number of raw sales of that street or suburb,  *)
(* rows without a parseable price or date included.                         *)
C14_TotalSalesOfRawSales ==
    FullyRebuilt =>
        /\ \A i \in 1..Len(street_summary) :
              street_summary[i].total_sales =
                  Cardinality(SalesOfStreetRow(street_summary[i]))
        /\ \A i \in 1..Len(suburb_summary) :
              suburb_summary[i].total_sales =
                  Cardinality(SalesOfSuburbRow(suburb_summary[i]))

\* What holds: the number of sales with a date and a price, of properties
\* with one sale as of properties with more.
TotalSalesOfValidSales ==
    FullyRebuilt =>
        /\ \A i \in 1..Len(street_summary) :
              street_summary[i].total_sales =
                  Cardinality(ValidOf(SalesOfStreetRow(street_summary[i])))
        /\ \A i \in 1..Len(suburb_summary) :
              suburb_summary[i].total_sales =
                  Cardinality(ValidOf(SalesOfSuburbRow(suburb_summary[i])))

-----------------------------------------------------------------------------
(* The average the summaries should hold, read off the sales table and the  *)
(* stored property cagr.                                                    *)

\* The mean cagr of a set of properties with a growth record; NULL for none.
MeanOrNull(pids) ==
    IF pids = {} THEN NULL
    ELSE LET facts == GrowthFacts
         IN  <<AverageOf(facts, Ascending(pids))>>

StreetAverageIsMean ==
    \A i \in 1..Len(street_summary) :
        street_summary[i].avg_cagr =
            MeanOrNull({p \in Qualifying :
                           GrowthStreetOf(p) = <<street_summary[i].street_name,
                                                 street_summary[i].suburb,
                                                 street_summary[i].post_code>>})
SuburbAverageIsMean ==
    \A i \in 1..Len(suburb_summary) :
        suburb_summary[i].avg_cagr =
            MeanOrNull({p \in Qualifying : GrowthSuburbOf(p) = suburb_summary[i].suburb})

(* C15 - after a complete rebuild, avg_cagr of every summary row is the     *)
(* mean cagr of the growth records grouped under the row's keys, whatever   *)
(* their year, and NULL when there is none; and every street and suburb     *)
(* with a raw sale has its row.                                             *)
C15_SummaryAverage ==
    FullyRebuilt =>
        /\ StreetAverageIsMean
        /\ SuburbAverageIsMean
        /\ \A j \in 1..Len(sales) :
              StreetSummaryRowsOf(sales[j]) # {} /\ SuburbSummaryRowsOf(sales[j]) # {}

\* What holds: the averages, and a row for every street and suburb with a
\* sale that has a date and a price (and, for the street, a post code).
SummaryAverageOfKeptSales ==
    FullyRebuilt =>
        /\ StreetAverageIsMean
        /\ SuburbAverageIsMean
        /\ \A j \in 1..Len(sales) :
              IsValidRow(sales[j]) =>
                  /\ SuburbSummaryRowsOf(sales[j]) # {}
                  /\ ~IsNull(sales[j].property_post_code) =>
                         StreetSummaryRowsOf(sales[j]) # {}

\* A complete rebuild has left a street row with a NULL average next to one
\* with an average.
NullAverageWitness ==
    /\ FullyRebuilt
    /\ \E i \in 1..Len(street_summary) : IsNull(street_summary[i].avg_cagr)
    /\ \E i \in 1..Len(street_summary) : ~IsNull(street_summary[i].avg_cagr)

-----------------------------------------------------------------------------
(* The top-performer flags of a frame, against the 90th percentile stated   *)
(* by ranks.                                                                *)

Known(frame) == {k \in 1..Len(frame) : ~IsNull(frame[k].avg_cagr)}
Flagged(frame) == {k \in 1..Len(frame) : frame[k].is_top_performer = 1}

\* The k-th smallest of the known averages, counted with repetitions.
KthSmallest(frame, k) ==
    CHOOSE v \in {frame[j].avg_cagr[1] : j \in Known(frame)} :
        /\ Cardinality({j \in Known(frame) : frame[j].avg_cagr[1] < v}) < k
        /\ k <= Cardinality({j \in Known(frame) : frame[j].avg_cagr[1] <= v})

\* x >= the 90th percentile of the known averages: the value at rank
\* 0.9 * (n - 1), counted from 0, interpolated between the two ranks around it.
AtOrAbovePercentile(frame, x) ==
    LET n == Cardinality(Known(frame))
        whole == (9 * (n - 1)) \div 10
        tenths == (9 * (n - 1)) % 10
        lo == KthSmallest(frame, whole + 1)
        hi == IF tenths = 0 THEN lo ELSE KthSmallest(frame, whole + 2)
    IN  10 * x >= 10 * lo + tenths * (hi - lo)

FlagsFollowPercentile(frame) ==
    \A k \in 1..Len(frame) :
        /\ frame[k].is_top_performer \in {0, 1}
        /\ frame[k].is_top_performer = 1 <=>
               (k \in Known(frame) /\ AtOrAbovePercentile(frame, frame[k].avg_cagr[1]))

Classified == pc = "classified"

(* C16 - is_top_performer is 1 exactly for the rows whose avg_cagr is known *)
(* and at or above the 90th percentile of the known avg_cagr of the frame;  *)
(* a row with a NULL avg_cagr is flagged 0, also when every avg_cagr is     *)
(* NULL.  The street and suburb tables of a rebuild are flagged each from   *)
(* its own averages.                                                        *)
C16_FlagsFollowPercentile ==
    /\ Classified => FlagsFollowPercentile(summary_df)
    /\ FlagsFollowPercentile(street_summary)
    /\ FlagsFollowPercentile(suburb_summary)

\* A frame of three known averages and a NULL one has been classified: only
\* the highest is flagged.
C16_Witness ==
    /\ Classified
    /\ Cardinality(Known(summary_df)) = 3
    /\ Len(summary_df) = 4
    /\ Cardinality(Flagged(summary_df)) = 1
    /\ \E k \in Known(summary_df) : summary_df[k].avg_cagr[1] < 0

C18_FlaggedAboveUnflagged ==
    Classified =>
        \A i \in Flagged(summary_df) :
            /\ i \in Known(summary_df)
            /\ \A j \in Known(summary_df) \ Flagged(summary_df) :
                  summary_df[i].avg_cagr[1] >= summary_df[j].avg_cagr[1]

\* Flagged and unflagged rows with known averages stand side by side.
C18_Witness ==
    /\ Classified
    /\ Cardinality(Flagged(summary_df)) = 2
    /\ Cardinality(Known(summary_df) \ Flagged(summary_df)) = 2

-----------------------------------------------------------------------------
(* The years of the per-year tables.                                        *)

\* The calendar year of the run: the year of the latest sales on record.
CurrentYear == YearOf(D2026Jan)

YearsOfRows == {street_growth[i].year : i \in 1..Len(street_growth)}
               \cup {suburb_growth[i].year : i \in 1..Len(suburb_growth)}

(* C19 - after a complete rebuild, for every year from 2001 up to and       *)
(* including the current year and every property eligible in it            *)
(* (last_sale_year >= Y) there is a street_growth row of its street and a   *)
(* suburb_growth row of its suburb for that year, and no row has a year     *)
(* before 2001 or after the current year.                                   *)
C19_RowsForAnalysisRange ==
    FullyRebuilt =>
        /\ YearsOfRows \subseteq FIRST_YEAR..CurrentYear
        /\ \A p \in Qualifying : \A year \in FIRST_YEAR..CurrentYear :
              LatestSaleYear(p) >= year =>
                  /\ \E i \in 1..Len(street_growth) :
                        /\ street_growth[i].year = year
                        /\ <<street_growth[i].street_name, street_growth[i].suburb,
                             street_growth[i].post_code>> = GrowthStreetOf(p)
                  /\ \E i \in 1..Len(suburb_growth) :
                        /\ suburb_growth[i].year = year
                        /\ suburb_growth[i].suburb = GrowthSuburbOf(p)

\* What holds: the years of the rows are years of years_range, 2001..2025.
YearsWithinCodedRange == YearsOfRows \subseteq years_range

-----------------------------------------------------------------------------
(* Monotonic inclusion.                                                     *)

PropertyIdsOf(growth) == {growth[i].property_id : i \in 1..Len(growth)}

\* Every row of a year after the first has a row of the year before with the
\* same key and at least its property_count.
NeverGrowing(table, KeyOfRow(_)) ==
    \A i \in 1..Len(table) :
        table[i].year > FIRST_YEAR =>
            \E j \in 1..Len(table) :
                /\ table[j].year = table[i].year - 1
                /\ KeyOfRow(table[j]) = KeyOfRow(table[i])
                /\ table[j].property_count >= table[i].property_count

StreetOfRow(r) == <<r.street_name, r.suburb, r.post_code>>
SuburbOfRow(r) == r.suburb

(* C20 - for consecutive years Y, Y + 1 of the analysis range the           *)
(* properties aggregated into Y + 1 are among those aggregated into Y; so   *)
(* in the tables a group with a row for Y + 1 has a row for Y, with at      *)
(* least the same property_count.                                           *)
C20_MonotonicInclusion ==
    /\ pc = "aggregate" =>
          \A year \in years_range :
              (year + 1 \in years_range) =>
                  PropertyIdsOf(YearActive(property_stats, year + 1))
                      \subseteq PropertyIdsOf(YearActive(property_stats, year))
    /\ FullyRebuilt =>
          /\ NeverGrowing(street_growth, StreetOfRow)
          /\ NeverGrowing(suburb_growth, SuburbOfRow)

\* A street's property_count has fallen from one year to the next.
C20_Witness ==
    /\ FullyRebuilt
    /\ \E i, j \in 1..Len(street_growth) :
          /\ street_growth[j].year = street_growth[i].year + 1
          /\ StreetOfRow(street_growth[j]) = StreetOfRow(street_growth[i])
          /\ street_growth[j].property_count < street_growth[i].property_count

-----------------------------------------------------------------------------
(* Concurrent runs.                                                         *)

AllRunsEnded == \A r \in RunIds : run_pc[r].at \in {"returned", "raised", "locked"}

\* What one run alone leaves in the tables, started on the tables `prior`.
SingleRun(prior, rows) ==
    LET plan == RunPlan(rows)
    IN  IF plan \in {"return", "raise"} THEN prior
        ELSE IF plan = "growth_only" THEN [prior EXCEPT !.property_growth = <<>>]
        ELSE RebuiltTables(rows)

-----------------------------------------------------------------------------
(* Aborted runs and the two commits.                                        *)

AggregatesOf(tables) ==
    <<tables.street_growth, tables.suburb_growth, tables.street_summary,
      tables.suburb_summary>>

C27_AggregatesCommittedTogether ==
    \/ Aggregates = BeforeAggregates
    \/ \E computed \in {ComputedTables} :
          /\ Aggregates = AggregatesOf(computed)
          /\ property_growth = computed.property_growth

\* A complete run has replaced the rows of the earlier data set in all four
\* tables at once.
C27_Witness ==
    /\ FullyRebuilt
    /\ \A k \in 1..4 : /\ BeforeAggregates[k] # <<>>
                        /\ Aggregates[k] # <<>>
                        /\ Aggregates[k] # BeforeAggregates[k]
    /\ Aggregates = AggregatesOf(ComputedTables)

-----------------------------------------------------------------------------
(* The nearest station.                                                     *)

\* The station rows a call had at hand: the cached frame, else the file's.
StationsAtHand(call) ==
    IF call.cached # <<>> THEN call.cached[1] ELSE call.file.rows

\* The call could not load any station data.
CannotLoad(call) == call.cached = <<>> /\ ~(call.file.exists /\ call.file.readable)

DistanceTo(call, row) ==
    haversine_distance(call.point[1], call.point[2], row.Latitude, row.Longitude)

(* C23 - get_nearest_station returns (None, None) whenever the station data *)
(* cannot be loaded or is empty; otherwise it returns the name of a station *)
(* at minimal haversine distance from the point, the first such in file     *)
(* order, together with that distance.                                      *)
C23_NearestStation ==
    nearest # <<>> =>
        LET rows == StationsAtHand(nearest)
        IN  IF CannotLoad(nearest) \/ rows = <<>>
            THEN nearest.result = [station |-> <<>>, dist |-> <<>>]
            ELSE \E i \in 1..Len(rows) :
                    /\ nearest.result.station = <<rows[i].Station>>
                    /\ nearest.result.dist = <<DistanceTo(nearest, rows[i])>>
                    /\ \A j \in 1..Len(rows) :
                          DistanceTo(nearest, rows[j]) >= DistanceTo(nearest, rows[i])
                    /\ \A j \in 1..(i - 1) :
                          DistanceTo(nearest, rows[j]) > DistanceTo(nearest, rows[i])

\* A call has returned the first of two stations at the same, minimal
\* distance, which is not the first row of the file.
C23_Witness ==
    /\ nearest # <<>>
    /\ Len(StationsAtHand(nearest)) = 3
    /\ nearest.result.station = <<"Central">>
    /\ StationsAtHand(nearest)[1].Station = "Strathfield"
    /\ StationsAtHand(nearest)[2].Station = "Central"
    /\ StationsAtHand(nearest)[3].Station = "Sydney Terminal"

-----------------------------------------------------------------------------
(* The first and the last sale of a property.                               *)

\* The latest valid sale of a property; of several on that date, the last row.
LatestSale(pid) ==
    sales[CHOOSE i \in ValidSales(pid) : \A j \in ValidSales(pid) :
              \/ sales[i].contract_date[1] > sales[j].contract_date[1]
              \/ sales[i].contract_date[1] = sales[j].contract_date[1] /\ i >= j]

\* (latest date - earliest date).days / 365.25 as a float.
HeldBetween(first, last) ==
    YearsHeld(YearsBetween(first.contract_date[1], last.contract_date[1]))

\* The stored columns of a growth record come from the two sales.
FromFirstAndLast(g, first, last) ==
    /\ g.first_sale_price = first.purchase_price[1]
    /\ g.last_sale_price = last.purchase_price[1]
    /\ g.years_held = HeldBetween(first, last)
    /\ g.years_held >= 0

(* C24 - for every property with a growth record, first_sale_price and the  *)
(* record's street, suburb and post code (0 for none) come from its         *)
(* earliest valid sale by contract_date, last_sale_price and last_sale_year *)
(* from its latest valid sale, and years_held is the day difference of the  *)
(* two divided by 365.25, never negative; of several sales on the earliest  *)
(* date the first row counts, of several on the latest date the last row.   *)
C24_FirstAndLastSale ==
    /\ pc = "aggregate" =>
          /\ PropertyIdsOf(property_stats) = Qualifying
          /\ \A i \in 1..Len(property_stats) :
                LET g == property_stats[i]
                    first == EarliestSale(g.property_id)
                    last == LatestSale(g.property_id)
                IN  /\ FromFirstAndLast(g, first, last)
                    /\ g.last_sale_year = YearOf(last.contract_date[1])
                    /\ StreetKey(g) = GrowthStreetOf(g.property_id)
    /\ (RunEnded /\ outcome = "returned" /\ derived > 0) =>
          \A i \in 1..Len(property_growth) :
              FromFirstAndLast(property_growth[i],
                               EarliestSale(property_growth[i].property_id),
                               LatestSale(property_growth[i].property_id))

\* A growth record of a property with two sales on its earliest date, at
\* different prices and addresses, and two on its latest date: the record
\* took the first row of the former and the last row of the latter.
C24_Witness ==
    /\ pc = "aggregate"
    /\ \E i, j \in ValidSales(1) :
          /\ i < j
          /\ sales[i].contract_date = sales[j].contract_date
          /\ sales[i].property_street_name # sales[j].property_street_name
          /\ \A k \in ValidSales(1) : sales[k].contract_date = sales[i].contract_date
          /\ \E g \in 1..Len(property_stats) :
                /\ property_stats[g].property_id = 1
                /\ property_stats[g].property_street_name = sales[i].property_street_name
                /\ property_stats[g].years_held = 0
    /\ \E i, j \in ValidSales(2) :
          /\ i < j
          /\ sales[i].contract_date = sales[j].contract_date
          /\ sales[i].purchase_price # sales[j].purchase_price
          /\ \E g \in 1..Len(property_stats) :
                /\ property_stats[g].property_id = 2
                /\ property_stats[g].first_sale_price = sales[i].purchase_price[1]
                /\ property_stats[g].last_sale_price = sales[j].purchase_price[1]

-----------------------------------------------------------------------------
(* The rows of the per-year tables, one by one.                             *)

\* The properties of `facts` whose latest valid sale is in `year` or later.
EligibleIn(facts, year) == {p \in DOMAIN facts : facts[p].last_sale_year >= year}

\* A row counts exactly the properties of `members`, at least one, and
\* averages their stored cagr.
CountsAndAverages(facts, row, members) ==
    /\ row.property_count >= 1
    /\ row.property_count = Cardinality(members)
    /\ row.avg_cagr = AverageOf(facts, Ascending(members))

\* No two rows of the table have the same key and year.
OneRowPerGroupAndYear(table, KeyOfRow(_)) ==
    Cardinality({<<KeyOfRow(table[i]), table[i].year>> : i \in 1..Len(table)}) = Len(table)

(* C25 - every street_growth and suburb_growth row written by a rebuild has *)
(* property_count >= 1, equal to the number of distinct eligible properties *)
(* of its group and year, and avg_cagr the mean of exactly their cagr; so a *)
(* group and year without an eligible property has no row (no zero or NaN   *)
(* row); and there is at most one row per group and year.                   *)
C25_RowsCountEligibleProperties ==
    FullyRebuilt =>
        \E facts \in {GrowthFacts} :
            /\ \A i \in 1..Len(street_growth) :
                  CountsAndAverages(facts, street_growth[i],
                                    {p \in EligibleIn(facts, street_growth[i].year) :
                                        facts[p].street = StreetOfRow(street_growth[i])})
            /\ \A i \in 1..Len(suburb_growth) :
                  CountsAndAverages(facts, suburb_growth[i],
                                    {p \in EligibleIn(facts, suburb_growth[i].year) :
                                        facts[p].suburb = SuburbOfRow(suburb_growth[i])})
            /\ OneRowPerGroupAndYear(street_growth, StreetOfRow)
            /\ OneRowPerGroupAndYear(suburb_growth, SuburbOfRow)

\* A suburb row averages two properties of different streets, one of them
\* with a cagr; the street of the other has no row after its last sale year
\* while the suburb still has.
C25_Witness ==
    /\ FullyRebuilt
    /\ \E i \in 1..Len(suburb_growth) :
          /\ suburb_growth[i].property_count = 2
          /\ suburb_growth[i].avg_cagr # 0
    /\ \E i \in 1..Len(street_growth) : \E j \in 1..Len(suburb_growth) :
          /\ street_growth[i].suburb = suburb_growth[j].suburb
          /\ suburb_growth[j].year > street_growth[i].year
          /\ \A k \in 1..Len(street_growth) :
                StreetOfRow(street_growth[k]) = StreetOfRow(street_growth[i])
                    => street_growth[k].year <= street_growth[i].year

-----------------------------------------------------------------------------
(* The chunked insert.                                                      *)

\* The chunks follow one another from record 1 to record n without a gap or
\* an overlap, and none is empty or longer than the chunk size.
ChunksTile(chunks, n) ==
    /\ chunks = <<>> <=> n = 0
    /\ chunks # <<>> => chunks[1][1] = 1 /\ chunks[Len(chunks)][2] = n
    /\ \A k \in 1..Len(chunks) :
          /\ chunks[k][1] <= chunks[k][2]
          /\ chunks[k][2] - chunks[k][1] < CHUNK_SIZE
          /\ k > 1 => chunks[k][1] = chunks[k - 1][2] + 1

(* C26 - the delete-then-chunked-insert of street_growth and street_summary *)
(* removes all existing rows first and then inserts every computed record   *)
(* exactly once, in chunks of at most 10,000, for 0 records, fewer than     *)
(* 10,000, an exact multiple of 10,000 or any other number: no record is    *)
(* skipped or inserted twice and no prior row survives.                     *)
C26_ChunkedReplace ==
    /\ bulk.at # "delete" => bulk.existing = 0
    /\ bulk.at = "done" => ChunksTile(bulk.inserted, bulk.n)
    /\ bulk.at = "insert" =>
          /\ bulk.i < bulk.n
          /\ ChunksTile(bulk.inserted, bulk.i)

\* 20,000 records have replaced 10,001 rows in exactly 2 full chunks.
C26_Witness ==
    /\ bulk.at = "done"
    /\ bulk.n = 2 * CHUNK_SIZE
    /\ bulk.prior > CHUNK_SIZE
    /\ bulk.existing = 0
    /\ bulk.inserted = <<<<1, CHUNK_SIZE>>, <<CHUNK_SIZE + 1, 2 * CHUNK_SIZE>>>>

-----------------------------------------------------------------------------
(* The keys of the per-year tables and of the summaries.                    *)

StreetSummaryKeys == {StreetOfRow(street_summary[i]) : i \in 1..Len(street_summary)}
SuburbSummaryKeys == {SuburbOfRow(suburb_summary[i]) : i \in 1..Len(suburb_summary)}

(* C28 - after a complete rebuild every (street_name, suburb, post_code)    *)
(* with a street_growth row has a street_summary row and every suburb with  *)
(* a suburb_growth row has a suburb_summary row, also for the properties    *)
(* whose sales record no post code (post_code 0 in the growth records).     *)
C28_GrowthKeysHaveSummaries ==
    FullyRebuilt =>
        /\ \A i \in 1..Len(street_growth) :
              StreetOfRow(street_growth[i]) \in StreetSummaryKeys
        /\ \A i \in 1..Len(suburb_growth) :
              SuburbOfRow(suburb_growth[i]) \in SuburbSummaryKeys

\* What holds: the suburbs, and the streets whose growth rows have a post code.
GrowthKeysWithPostCodeHaveSummaries ==
    FullyRebuilt =>
        /\ \A i \in 1..Len(street_growth) :
              street_growth[i].post_code # 0 =>
                  StreetOfRow(street_growth[i]) \in StreetSummaryKeys
        /\ \A i \in 1..Len(street_growth) :
              street_growth[i].post_code = 0 =>
                  StreetOfRow(street_growth[i]) \notin StreetSummaryKeys
        /\ \A i \in 1..Len(suburb_growth) :
              SuburbOfRow(suburb_growth[i]) \in SuburbSummaryKeys

-----------------------------------------------------------------------------
(* The sales table after ingest_data.                                       *)

\* The chunks are the first `count` chunks of the records, each complete.
FirstChunks(chunks, count, n) ==
    /\ Len(chunks) = count
    /\ \A k \in 1..count :
          /\ chunks[k][1] = (k - 1) * INGEST_CHUNK_SIZE + 1
          /\ chunks[k][2] = IF k * INGEST_CHUNK_SIZE < n THEN k * INGEST_CHUNK_SIZE ELSE n

\* The number of chunks n records make.
ChunksOf(n) == (n + INGEST_CHUNK_SIZE - 1) \div INGEST_CHUNK_SIZE

\* The insert of chunk `failing` is reached and fails.
InsertFails == ingest.failing \in 1..ChunksOf(ingest.n)

(* C29 - ingest_data commits after each chunk of 5,000 records and swallows *)
(* database errors: when the insert of chunk k fails, the error is logged   *)
(* and not raised, only the uncommitted work is rolled back, and the sales  *)
(* table holds exactly its prior rows when k = 1 (as it does when no record *)
(* was parsed) and exactly the records of chunks 1..k-1, with every prior   *)
(* row gone, when k >= 2.                                                   *)
C29_IngestCommitsPerChunk ==
    /\ ~ingest.raised
    /\ ingest.at \in {"insert", "commit"} =>
          ingest.table = IF ingest.i = 0 THEN SalesContent(ingest.prior, <<>>)
                         ELSE SalesContent(0, ingest.table.chunks)
    /\ ingest.at = "insert" =>
          FirstChunks(ingest.table.chunks, ChunkNumber(ingest.i) - 1, ingest.n)
    /\ ingest.at = "done" =>
          /\ ingest.logged <=> InsertFails
          /\ (ingest.n = 0 \/ ingest.failing = 1) =>
                ingest.table = SalesContent(ingest.prior, <<>>)
          /\ (InsertFails /\ ingest.failing >= 2) =>
                /\ ingest.table.kept = 0
                /\ FirstChunks(ingest.table.chunks, ingest.failing - 1, ingest.n)

\* The insert of the third chunk has failed: the table holds the first
\* 10,000 records and none of its 5,001 prior rows.
C29_Witness ==
    /\ ingest.at = "done"
    /\ ingest.logged
    /\ ingest.failing = 3
    /\ ingest.prior > INGEST_CHUNK_SIZE
    /\ ingest.table = SalesContent(0, <<<<1, INGEST_CHUNK_SIZE>>,
                                       <<INGEST_CHUNK_SIZE + 1, 2 * INGEST_CHUNK_SIZE>>>>)

-----------------------------------------------------------------------------
(* verify_cagr against the stored cagr.                                     *)

\* Every sale of the property has a price and a date.
AllSalesValid(pid) ==
    \A i \in 1..Len(sales) :
        sales[i].property_id = pid =>
            ~IsNull(sales[i].purchase_price) /\ ~IsNull(sales[i].contract_date)

\* A holding of more than no time and less than half a year.
HeldUnderHalfYear(years) == years[1] > 0 /\ LessThanHalfYear(years)

(* C30 - For every property in PropertyGrowth whose sales all have a valid  *)
(* price and date, the cagr verify_cagr recomputes agrees with the stored   *)
(* cagr within 0.0001 (PASS is logged), whatever the holding period,        *)
(* holdings of less than half a year included.                              *)
C30_VerifyAgreesWithStored ==
    \A k \in 1..Len(verify_log.lines) :
        AllSalesValid(verify_log.lines[k].property_id) =>
            verify_log.lines[k].verdict = "PASS"

\* What does hold: FAIL is logged exactly for the holdings of less than half
\* a year, and more than no time, whose two prices differ.
VerifyFailsOnShortHoldingsOnly ==
    \A k \in 1..Len(verify_log.lines) :
        LET line == verify_log.lines[k]
        IN  line.verdict = "FAIL" <=> (HeldUnderHalfYear(line.years) /\ line.p_start # line.p_end)

\* A holding of four years with a doubled price passes.
VerifyPassesLongHolding ==
    \E k \in 1..Len(verify_log.lines) :
        LET line == verify_log.lines[k]
        IN  /\ line.verdict = "PASS"
            /\ ~LessThanHalfYear(line.years)
            /\ line.p_end = 2 * line.p_start
            /\ line.calc_cagr > 0

=============================================================================
